---- MODULE Spec2Model ----
(***************************************************************************)
(* Model of the NES emulator core in src/nsim: the SY6502 CPU (hw/cpu.py), *)
(* the Bus6502 clock and reset (hw/bus.py), the PPU tick counters          *)
(* (hw/ppu.py) and the debugger key handler (interface/debugger.py).       *)
(*                                                                         *)
(* Python values are modelled as follows.  Integers are unbounded Python   *)
(* ints: nothing is masked unless the code masks it.  bool results         *)
(* (True/False) are the integers 1/0, as they behave in ==, & and +.       *)
(* A byte read from the uint8 work RAM is a np.uint8: the field ty of the  *)
(* CPU record and of the flags holds the kind of every attribute (Python   *)
(* int or bool, np.uint8, np.int64, np.bool_), and arithmetic on two       *)
(* np.uint8 values wraps modulo 256.  An exception raised inside a call    *)
(* leaves every assignment made before it in place; the field err of the   *)
(* CPU record names the exception the last call raised.                    *)
(***************************************************************************)
EXTENDS Integers, Sequences, FiniteSets, TLC

\* ---------------------------------------------------------------- constants
STACK_ADDR == 256
INIT_ADDR == 65532
INTR_ADDR == 65534
NMI_ADDR == 65530
RESET_TIME == 8
INTR_TIME == 7
NMI_TIME == 8
\* highest CPU address backed by work RAM, and the mirror mask
RAM_TOP == 8191
RAM_MASK == 2047
\* the pc attribute is not assigned by the constructor; NoAttr marks it unset
NoAttr == -1
\* marks a cpu_read whose address is not mapped (the local "data" is unbound)
Unbound == -1

\* what a method without a return statement returns
None == -2

NoErr == "none"
ULE == "UnboundLocalError"
ATE == "AttributeError"
OVE == "OverflowError"
IDE == "IndexError"
TPE == "TypeError"
KYE == "KeyError"
VLE == "ValueError"

\* -------------------------------------------------- Python integer bitwise
RECURSIVE AndN(_, _)
AndN(m, n) ==
    IF m = 0 \/ n = 0 THEN 0
    ELSE (IF m % 2 = 1 /\ n % 2 = 1 THEN 1 ELSE 0) + 2 * AndN(m \div 2, n \div 2)

RECURSIVE OrN(_, _)
OrN(m, n) ==
    IF m = 0 THEN n ELSE IF n = 0 THEN m
    ELSE (IF m % 2 = 1 \/ n % 2 = 1 THEN 1 ELSE 0) + 2 * OrN(m \div 2, n \div 2)

RECURSIVE XorN(_, _)
XorN(m, n) ==
    IF m = 0 THEN n ELSE IF n = 0 THEN m
    ELSE (IF m % 2 # n % 2 THEN 1 ELSE 0) + 2 * XorN(m \div 2, n \div 2)

\* m & ~n for naturals
RECURSIVE AndNotN(_, _)
AndNotN(m, n) ==
    IF m = 0 THEN 0 ELSE IF n = 0 THEN m
    ELSE (IF m % 2 = 1 /\ n % 2 = 0 THEN 1 ELSE 0) + 2 * AndNotN(m \div 2, n \div 2)

\* ~m for a Python int or a np.int64 m (Invert gives it for each kind)
Not(m) == (0 - m) - 1

\* m & n on two's-complement integers of unbounded width
And(m, n) ==
    IF m >= 0 /\ n >= 0 THEN AndN(m, n)
    ELSE IF m >= 0 THEN AndNotN(m, Not(n))
    ELSE IF n >= 0 THEN AndNotN(n, Not(m))
    ELSE Not(OrN(Not(m), Not(n)))

\* m | n
Or(m, n) ==
    IF m >= 0 /\ n >= 0 THEN OrN(m, n)
    ELSE IF m >= 0 THEN Not(AndNotN(Not(n), m))
    ELSE IF n >= 0 THEN Not(AndNotN(Not(m), n))
    ELSE Not(AndN(Not(m), Not(n)))

\* m ^ n
Xor(m, n) ==
    IF m >= 0 /\ n >= 0 THEN XorN(m, n)
    ELSE IF m >= 0 THEN Not(XorN(m, Not(n)))
    ELSE IF n >= 0 THEN Not(XorN(Not(m), n))
    ELSE XorN(Not(m), Not(n))

\* the element of a one-element set: { e(t) : t \in {v} } computes v once
\* and names it t, as a local variable of the code does
Only(S) == CHOOSE v \in S : TRUE

\* True/False as the integers 1/0
Bool(p) == IF p THEN 1 ELSE 0

\* ------------------------------------------------------- kinds of values
\* The work RAM is a numpy uint8 array, so a byte read from it is a
\* np.uint8 scalar and what is computed from it is a numpy scalar as well.
\* Every attribute has its kind next to its value:
\*   "int"   Python int      "bool"  Python bool
\*   "uint8" np.uint8        "int64" np.int64       "bool_" np.bool_
\* The rules are those of numpy's scalar arithmetic with its value
\* independent promotion of two scalars: a Python int counts as int64 and
\* a Python bool as bool_.
Kinds == {"int", "bool", "uint8", "int64", "bool_"}

IsPy(k) == k \in {"int", "bool"}

\* the kind of "x op n" for a Python int n (x & 0xFF, x + 1, x << 8)
Wide(k) == IF IsPy(k) THEN "int" ELSE "int64"

\* the kind of a comparison of x with a Python int (x == 0, x > 255)
Truth(k) == IF IsPy(k) THEN "bool" ELSE "bool_"

\* the kind of "x op y"
Promote(k1, k2) ==
    IF IsPy(k1) /\ IsPy(k2) THEN "int"
    ELSE IF "int64" \in {k1, k2} \/ "int" \in {k1, k2} THEN "int64"
    ELSE IF "uint8" \in {k1, k2} THEN "uint8"
    ELSE "bool_"

\* the value of a sum or difference of kind k whose exact value is v: a
\* uint8 result wraps modulo 256
Narrow(k, v) == IF k = "uint8" THEN v % 256 ELSE v

\* "~m" for m of kind k: the 8-bit complement of a uint8, the logical
\* negation of a bool_, Python's ~ otherwise
Invert(k, m) ==
    IF k = "uint8" THEN 255 - m ELSE IF k = "bool_" THEN 1 - m ELSE Not(m)

\* the kind of "~m"
InvertKind(k) == IF k = "bool" THEN "int" ELSE k

\* ------------------------------------------------------------ FLAGS6502
\* the dataclass defaults; ty holds the kind of each flag
FLAGS6502 ==
    [C |-> 0, Z |-> 0, I |-> 0, D |-> 0, B |-> 0, U |-> 0, V |-> 0, N |-> 0,
     ty |-> [C |-> "int", Z |-> "int", I |-> "int", D |-> "int",
             B |-> "int", U |-> "int", V |-> "int", N |-> "int"]]

\* the names of the eight flags
FlagNames == {"C", "Z", "I", "D", "B", "U", "V", "N"}

\* 2^n
RECURSIVE Pow2(_)
Pow2(n) == IF n = 0 THEN 1 ELSE 2 * Pow2(n - 1)

\* whether the Python int mant * 2^shift, mant >= 0, is below 2^bits
Below(mant, shift, bits) ==
    mant = 0 \/ (shift < bits /\ (bits - shift >= 30 \/ mant < Pow2(bits - shift)))

\* one "<<" of extract().  acc is the left operand: the value
\* mant * 2^shift, its kind and the exception raised so far; count is the
\* right operand and kc its kind.  Two Python operands shift exactly.  With
\* a numpy operand on either side the shift is done on int64: a count of
\* 64 or more gives 0, and bits shifted past bit 63 are lost.  A Python
\* int from 2^63 to 2^64 - 1 becomes a uint64, which has no common integer
\* type with int64 (TypeError); a larger one is shifted as a Python object.
ShiftLeft(acc, count, kc) ==
    IF acc.err # NoErr THEN acc
    ELSE IF IsPy(acc.kind) /\ IsPy(kc)
         THEN [acc EXCEPT !.shift = @ + count, !.kind = "int"]
    ELSE IF IsPy(acc.kind) /\ ~Below(acc.mant, acc.shift, 63)
         THEN IF Below(acc.mant, acc.shift, 64) THEN [acc EXCEPT !.err = "TypeError"]
              ELSE [acc EXCEPT !.shift = @ + count, !.kind = "int"]
    ELSE IF acc.mant = 0 \/ count >= 64 \/ acc.shift + count >= 64
         THEN [acc EXCEPT !.mant = 0, !.shift = 0, !.kind = "int64"]
    ELSE IF 64 - (acc.shift + count) >= 30
         THEN [acc EXCEPT !.shift = @ + count, !.kind = "int64"]
    ELSE LET w == 64 - (acc.shift + count)
             low == acc.mant % Pow2(w)
         IN  IF low = 0 THEN [acc EXCEPT !.mant = 0, !.shift = 0, !.kind = "int64"]
             ELSE [acc EXCEPT !.mant = IF low >= Pow2(w - 1) THEN low - Pow2(w) ELSE low,
                              !.shift = @ + count, !.kind = "int64"]

\* the kind of "n + flag" for a Python int n
CountKind(k) == IF IsPy(k) THEN "int" ELSE "int64"

\* extract(): "+" binds tighter than "<<", so the expression is
\*   C << (0+Z) << (1+I) << (2+D) << (3+B) << (4+U) << (5+V) << (6+N) << 7
\* The result is the value mant * 2^shift (kept factored: it does not fit
\* a machine integer of the checker for most flag settings), its kind and
\* the exception raised.
extract(f) ==
    Only({ ShiftLeft(a7, 7, "int") :
      a7 \in { ShiftLeft(a6, 6 + f.N, CountKind(f.ty.N)) :
        a6 \in { ShiftLeft(a5, 5 + f.V, CountKind(f.ty.V)) :
          a5 \in { ShiftLeft(a4, 4 + f.U, CountKind(f.ty.U)) :
            a4 \in { ShiftLeft(a3, 3 + f.B, CountKind(f.ty.B)) :
              a3 \in { ShiftLeft(a2, 2 + f.D, CountKind(f.ty.D)) :
                a2 \in { ShiftLeft(a1, 1 + f.I, CountKind(f.ty.I)) :
                  a1 \in { ShiftLeft([mant |-> f.C, shift |-> 0, kind |-> f.ty.C,
                                      err |-> NoErr],
                                     0 + f.Z, CountKind(f.ty.Z)) } } } } } } } })

\* apply(value) for a value of kind k: each flag is "value & mask"
apply(f, value, k) ==
    [C |-> And(value, 1), Z |-> And(value, 2), I |-> And(value, 4),
     D |-> And(value, 8), B |-> And(value, 16), U |-> And(value, 32),
     V |-> And(value, 64), N |-> And(value, 128),
     ty |-> [n \in FlagNames |-> Wide(k)]]

\* ------------------------------------------------------ instruction table
\* a table whose entries are one cycle shorter
I_one_cycle_less(nm, op, md, cy) ==
    [name |-> nm, opcode |-> op, addrmode |-> md, cycle |-> cy - 1]

I(nm, op, md, cy) == [name |-> nm, opcode |-> op, addrmode |-> md, cycle |-> cy]

\* create_instructions(): entry k+1 is the instruction of opcode k
instructions == <<
    I("BRK","BRK","IMM",7), I("ORA","ORA","IZX",6), I("???","XXX","IMP",2), I("???","XXX","IMP",8),
    I("???","NOP","IMP",3), I("ORA","ORA","ZP0",3), I("ASL","ASL","ZP0",5), I("???","XXX","IMP",5),
    I("PHP","PHP","IMP",3), I("ORA","ORA","IMM",2), I("ASL","ASL","IMP",2), I("???","XXX","IMP",2),
    I("???","NOP","IMP",4), I("ORA","ORA","ABS",4), I("ASL","ASL","ABS",6), I("???","XXX","IMP",6),
    I("BPL","BPL","REL",2), I("ORA","ORA","IZY",5), I("???","XXX","IMP",2), I("???","XXX","IMP",8),
    I("???","NOP","IMP",4), I("ORA","ORA","ZPX",4), I("ASL","ASL","ZPX",6), I("???","XXX","IMP",6),
    I("CLC","CLC","IMP",2), I("ORA","ORA","ABY",4), I("???","NOP","IMP",2), I("???","XXX","IMP",7),
    I("???","NOP","IMP",4), I("ORA","ORA","ABX",4), I("ASL","ASL","ABX",7), I("???","XXX","IMP",7),
    I("JSR","JSR","ABS",6), I("AND","AND","IZX",6), I("???","XXX","IMP",2), I("???","XXX","IMP",8),
    I("BIT","BIT","ZP0",3), I("AND","AND","ZP0",3), I("ROL","ROL","ZP0",5), I("???","XXX","IMP",5),
    I("PLP","PLP","IMP",4), I("AND","AND","IMM",2), I("ROL","ROL","IMP",2), I("???","XXX","IMP",2),
    I("BIT","BIT","ABS",4), I("AND","AND","ABS",4), I("ROL","ROL","ABS",6), I("???","XXX","IMP",6),
    I("BMI","BMI","REL",2), I("AND","AND","IZY",5), I("???","XXX","IMP",2), I("???","XXX","IMP",8),
    I("???","NOP","IMP",4), I("AND","AND","ZPX",4), I("ROL","ROL","ZPX",6), I("???","XXX","IMP",6),
    I("SEC","SEC","IMP",2), I("AND","AND","ABY",4), I("???","NOP","IMP",2), I("???","XXX","IMP",7),
    I("???","NOP","IMP",4), I("AND","AND","ABX",4), I("ROL","ROL","ABX",7), I("???","XXX","IMP",7),
    I("RTI","RTI","IMP",6), I("EOR","EOR","IZX",6), I("???","XXX","IMP",2), I("???","XXX","IMP",8),
    I("???","NOP","IMP",3), I("EOR","EOR","ZP0",3), I("LSR","LSR","ZP0",5), I("???","XXX","IMP",5),
    I("PHA","PHA","IMP",3), I("EOR","EOR","IMM",2), I("LSR","LSR","IMP",2), I("???","XXX","IMP",2),
    I("JMP","JMP","ABS",3), I("EOR","EOR","ABS",4), I("LSR","LSR","ABS",6), I("???","XXX","IMP",6),
    I("BVC","BVC","REL",2), I("EOR","EOR","IZY",5), I("???","XXX","IMP",2), I("???","XXX","IMP",8),
    I("???","NOP","IMP",4), I("EOR","EOR","ZPX",4), I("LSR","LSR","ZPX",6), I("???","XXX","IMP",6),
    I("CLI","CLI","IMP",2), I("EOR","EOR","ABY",4), I("???","NOP","IMP",2), I("???","XXX","IMP",7),
    I("???","NOP","IMP",4), I("EOR","EOR","ABX",4), I("LSR","LSR","ABX",7), I("???","XXX","IMP",7),
    I("RTS","RTS","IMP",6), I("ADC","ADC","IZX",6), I("???","XXX","IMP",2), I("???","XXX","IMP",8),
    I("???","NOP","IMP",3), I("ADC","ADC","ZP0",3), I("ROR","ROR","ZP0",5), I("???","XXX","IMP",5),
    I("PLA","PLA","IMP",4), I("ADC","ADC","IMM",2), I("ROR","ROR","IMP",2), I("???","XXX","IMP",2),
    I("JMP","JMP","IND",5), I("ADC","ADC","ABS",4), I("ROR","ROR","ABS",6), I("???","XXX","IMP",6),
    I("BVS","BVS","REL",2), I("ADC","ADC","IZY",5), I("???","XXX","IMP",2), I("???","XXX","IMP",8),
    I("???","NOP","IMP",4), I("ADC","ADC","ZPX",4), I("ROR","ROR","ZPX",6), I("???","XXX","IMP",6),
    I("SEI","SEI","IMP",2), I("ADC","ADC","ABY",4), I("???","NOP","IMP",2), I("???","XXX","IMP",7),
    I("???","NOP","IMP",4), I("ADC","ADC","ABX",4), I("ROR","ROR","ABX",7), I("???","XXX","IMP",7),
    I("???","NOP","IMP",2), I("STA","STA","IZX",6), I("???","NOP","IMP",2), I("???","XXX","IMP",6),
    I("STY","STY","ZP0",3), I("STA","STA","ZP0",3), I("STX","STX","ZP0",3), I("???","XXX","IMP",3),
    I("DEY","DEY","IMP",2), I("???","NOP","IMP",2), I("TXA","TXA","IMP",2), I("???","XXX","IMP",2),
    I("STY","STY","ABS",4), I("STA","STA","ABS",4), I("STX","STX","ABS",4), I("???","XXX","IMP",4),
    I("BCC","BCC","REL",2), I("STA","STA","IZY",6), I("???","XXX","IMP",2), I("???","XXX","IMP",6),
    I("STY","STY","ZPX",4), I("STA","STA","ZPX",4), I("STX","STX","ZPY",4), I("???","XXX","IMP",4),
    I("TYA","TYA","IMP",2), I("STA","STA","ABY",5), I("TXS","TXS","IMP",2), I("???","XXX","IMP",5),
    I("???","NOP","IMP",5), I("STA","STA","ABX",5), I("???","XXX","IMP",5), I("???","XXX","IMP",5),
    I("LDY","LDY","IMM",2), I("LDA","LDA","IZX",6), I("LDX","LDX","IMM",2), I("???","XXX","IMP",6),
    I("LDY","LDY","ZP0",3), I("LDA","LDA","ZP0",3), I("LDX","LDX","ZP0",3), I("???","XXX","IMP",3),
    I("TAY","TAY","IMP",2), I("LDA","LDA","IMM",2), I("TAX","TAX","IMP",2), I("???","XXX","IMP",2),
    I("LDY","LDY","ABS",4), I("LDA","LDA","ABS",4), I("LDX","LDX","ABS",4), I("???","XXX","IMP",4),
    I("BCS","BCS","REL",2), I("LDA","LDA","IZY",5), I("???","XXX","IMP",2), I("???","XXX","IMP",5),
    I("LDY","LDY","ZPX",4), I("LDA","LDA","ZPX",4), I("LDX","LDX","ZPY",4), I("???","XXX","IMP",4),
    I("CLV","CLV","IMP",2), I("LDA","LDA","ABY",4), I("TSX","TSX","IMP",2), I("???","XXX","IMP",4),
    I("LDY","LDY","ABX",4), I("LDA","LDA","ABX",4), I("LDX","LDX","ABY",4), I("???","XXX","IMP",4),
    I("CPY","CPY","IMM",2), I("CMP","CMP","IZX",6), I("???","NOP","IMP",2), I("???","XXX","IMP",8),
    I("CPY","CPY","ZP0",3), I("CMP","CMP","ZP0",3), I("DEC","DEC","ZP0",5), I("???","XXX","IMP",5),
    I("INY","INY","IMP",2), I("CMP","CMP","IMM",2), I("DEX","DEX","IMP",2), I("???","XXX","IMP",2),
    I("CPY","CPY","ABS",4), I("CMP","CMP","ABS",4), I("DEC","DEC","ABS",6), I("???","XXX","IMP",6),
    I("BNE","BNE","REL",2), I("CMP","CMP","IZY",5), I("???","XXX","IMP",2), I("???","XXX","IMP",8),
    I("???","NOP","IMP",4), I("CMP","CMP","ZPX",4), I("DEC","DEC","ZPX",6), I("???","XXX","IMP",6),
    I("CLD","CLD","IMP",2), I("CMP","CMP","ABY",4), I("NOP","NOP","IMP",2), I("???","XXX","IMP",7),
    I("???","NOP","IMP",4), I("CMP","CMP","ABX",4), I("DEC","DEC","ABX",7), I("???","XXX","IMP",7),
    I("CPX","CPX","IMM",2), I("SBC","SBC","IZX",6), I("???","NOP","IMP",2), I("???","XXX","IMP",8),
    I("CPX","CPX","ZP0",3), I("SBC","SBC","ZP0",3), I("INC","INC","ZP0",5), I("???","XXX","IMP",5),
    I("INX","INX","IMP",2), I("SBC","SBC","IMM",2), I("NOP","NOP","IMP",2), I("???","SBC","IMP",2),
    I("CPX","CPX","ABS",4), I("SBC","SBC","ABS",4), I("INC","INC","ABS",6), I("???","XXX","IMP",6),
    I("BEQ","BEQ","REL",2), I("SBC","SBC","IZY",5), I("???","XXX","IMP",2), I("???","XXX","IMP",8),
    I("???","NOP","IMP",4), I("SBC","SBC","ZPX",4), I("INC","INC","ZPX",6), I("???","XXX","IMP",6),
    I("SED","SED","IMP",2), I("SBC","SBC","ABY",4), I("NOP","NOP","IMP",2), I("???","XXX","IMP",7),
    I("???","NOP","IMP",4), I("SBC","SBC","ABX",4), I("INC","INC","ABX",7), I("???","XXX","IMP",7)
>>

\* self.instructions[opcode]
Instruction(opc) == instructions[opc + 1]

\* ------------------------------------------------------------ work RAM
\* cpu_ram is the 2 KiB uint8 array, all zero after construction.  It is
\* kept as the function of its nonzero cells; an absent cell holds 0.
RamAt(ram, i) == IF i \in DOMAIN ram THEN ram[i] ELSE 0

RamPut(ram, i, v) ==
    IF v = 0 THEN [j \in (DOMAIN ram) \ {i} |-> ram[j]]
    ELSE [j \in (DOMAIN ram) \cup {i} |-> IF j = i THEN v ELSE ram[j]]

Raise(s, e) == [s EXCEPT !.err = e]

\* the address test of cpu_read and cpu_write
Mapped(addr) == 0 <= addr /\ addr <= RAM_TOP

\* SY6502.cpu_read: the byte at addr, a np.uint8, or Unbound when addr is
\* not mapped ("data" is then unassigned and "return data" raises
\* UnboundLocalError)
cpu_read(s, addr) ==
    IF Mapped(addr) THEN RamAt(s.cpu_ram, And(addr, RAM_MASK)) ELSE Unbound

\* cpu_write as it would be with "self.cpu_ram[addr] = data", the line the
\* source keeps as a comment
cpu_write_unmirrored(s, addr, data, k) ==
    IF s.err # NoErr \/ ~Mapped(addr) THEN s
    ELSE IF data \in 0..255 THEN [s EXCEPT !.cpu_ram = RamPut(@, addr, data)]
    ELSE IF k = "long" THEN Raise(s, OVE)
    ELSE IF ~IsPy(k) \/ s.ovf = "wrap"
         THEN [s EXCEPT !.cpu_ram = RamPut(@, addr, data % 256)]
    ELSE Raise(s, OVE)

\* SY6502.cpu_write of data of kind k.  A numpy scalar outside 0..255 is
\* cast to uint8, modulo 256.  A Python int outside 0..255 either wraps
\* modulo 256 or raises OverflowError, depending on the numpy release;
\* s.ovf is the outcome.  A Python int that does not fit a C long (kind
\* "long") raises OverflowError in every release.
cpu_write(s, addr, data, k) ==
    IF s.err # NoErr \/ ~Mapped(addr) THEN s
    ELSE IF data \in 0..255
         THEN [s EXCEPT !.cpu_ram = RamPut(@, And(addr, RAM_MASK), data)]
    ELSE IF k = "long" THEN Raise(s, OVE)
    ELSE IF ~IsPy(k) \/ s.ovf = "wrap"
         THEN [s EXCEPT !.cpu_ram = RamPut(@, And(addr, RAM_MASK), data % 256)]
    ELSE Raise(s, OVE)

\* the data argument made of extract(): 0 when the value is 0, otherwise
\* a nonzero multiple of 2^28 (outside 0..255, congruent to 0 modulo 256)
ExtractData(e) == IF e.mant = 0 THEN 0 ELSE 268435456

\* the kind of that argument: "long" for a Python int of 2^63 or more
ExtractKind(e) ==
    IF IsPy(e.kind) /\ ~Below(e.mant, e.shift, 63) THEN "long" ELSE e.kind

\* cpu_write(STACK_ADDR + stkp, data); stkp -= 1
Push(s, data, k) ==
    Only({ IF t.err # NoErr THEN t
           ELSE [t EXCEPT !.stkp = @ - 1, !.ty.stkp = Wide(@)] :
           t \in {cpu_write(s, STACK_ADDR + s.stkp, data, k)} })

\* the two pushes of pc: the high byte, then the low byte
PushPc(s) ==
    Only({ Push(t, And(t.pc, 255), Wide(t.ty.pc)) :
           t \in {Push(s, And(s.pc \div 256, 255), Wide(s.ty.pc))} })

\* the assignments "flags.Z = <comparison>" and "flags.N = <value> & 0x80"
\* where the value compared and masked has kind k
SetZN(s, zero, neg, k) ==
    [s EXCEPT !.flags.Z = Bool(zero), !.flags.ty.Z = Truth(k),
              !.flags.N = neg, !.flags.ty.N = Wide(k)]

\* ------------------------------------------------------------ fetch
fetch(s) ==
    IF Instruction(s.opcode).addrmode # "IMP"
    THEN LET v == cpu_read(s, s.addr_abs)
         IN  IF v = Unbound THEN Raise(s, ULE)
             ELSE [s EXCEPT !.fetched = v, !.ty.fetched = "uint8"]
    ELSE s

\* _jump
_jump(s) ==
    LET k == Promote(s.ty.pc, s.ty.addr_rel)
        tgt == And(Narrow(k, s.pc + s.addr_rel), 65535)
        c1 == s.cycle + 1
        c2 == IF And(tgt, 65280) # And(s.pc, 65280) THEN c1 + 1 ELSE c1
    IN  [s EXCEPT !.cycle = c2, !.addr_abs = tgt, !.ty.addr_abs = Wide(k),
                  !.pc = tgt, !.ty.pc = Wide(k)]

\* ------------------------------------------------------ addressing modes
IMP(s) == [s EXCEPT !.fetched = s.a, !.ty.fetched = s.ty.a, !.ret = 0]

IMM(s) ==
    [s EXCEPT !.addr_abs = s.pc, !.ty.addr_abs = s.ty.pc,
              !.pc = s.pc + 1, !.ty.pc = Wide(s.ty.pc), !.ret = 0]

\* "self.addr &= 0x00FF" reads an attribute that is never assigned
ZP0(s) ==
    LET v == cpu_read(s, s.pc)
    IN  IF v = Unbound THEN Raise(s, ULE)
        ELSE Raise([s EXCEPT !.addr_abs = v, !.ty.addr_abs = "uint8",
                             !.pc = s.pc + 1, !.ty.pc = Wide(s.ty.pc)], ATE)

ZPX(s) ==
    LET v == cpu_read(s, s.pc)
        k == Promote("uint8", s.ty.x)
    IN  IF v = Unbound THEN Raise(s, ULE)
        ELSE [s EXCEPT !.addr_abs = And(Narrow(k, v + s.x), 255),
                       !.ty.addr_abs = Wide(k),
                       !.pc = s.pc + 1, !.ty.pc = Wide(s.ty.pc), !.ret = 0]

ZPY(s) ==
    LET v == cpu_read(s, s.pc)
        k == Promote("uint8", s.ty.y)
    IN  IF v = Unbound THEN Raise(s, ULE)
        ELSE [s EXCEPT !.addr_abs = And(Narrow(k, v + s.y), 255),
                       !.ty.addr_abs = Wide(k),
                       !.pc = s.pc + 1, !.ty.pc = Wide(s.ty.pc), !.ret = 0]

\* a byte without bit 7 stays the np.uint8 that was read
REL(s) ==
    LET v == cpu_read(s, s.pc)
    IN  IF v = Unbound THEN Raise(s, ULE)
        ELSE [s EXCEPT !.pc = s.pc + 1, !.ty.pc = Wide(s.ty.pc),
                       !.addr_rel = IF And(v, 128) # 0 THEN Or(v, 65280) ELSE v,
                       !.ty.addr_rel = IF And(v, 128) # 0 THEN "int64" ELSE "uint8",
                       !.ret = 0]

\* the two operand reads shared by ABS, ABX, ABY and IND: lower, pc += 1,
\* higher, pc += 1; the result carries lo and hi, or the exception
Read16(s) ==
    LET lower == cpu_read(s, s.pc)
        t == [s EXCEPT !.pc = s.pc + 1, !.ty.pc = Wide(s.ty.pc)]
        higher == cpu_read(t, t.pc)
    IN  IF lower = Unbound THEN [st |-> Raise(s, ULE), lo |-> 0, hi |-> 0]
        ELSE IF higher = Unbound THEN [st |-> Raise(t, ULE), lo |-> lower, hi |-> 0]
        ELSE [st |-> [t EXCEPT !.pc = t.pc + 1], lo |-> lower, hi |-> higher]

ABS(s) ==
    Only({ IF r.st.err # NoErr THEN r.st
           ELSE [r.st EXCEPT !.addr_abs = Or(r.hi * 256, r.lo),
                             !.ty.addr_abs = "int64", !.ret = 0] :
           r \in {Read16(s)} })

ABX(s) ==
    Only({ LET _addr_abs == Or(r.hi * 256, r.lo) + s.x
           IN  IF r.st.err # NoErr THEN r.st
               ELSE [r.st EXCEPT !.addr_abs = _addr_abs, !.ty.addr_abs = "int64",
                                 !.ret = Bool(And(_addr_abs, 65280) # r.hi * 256)] :
           r \in {Read16(s)} })

ABY(s) ==
    Only({ LET _addr_abs == Or(r.hi * 256, r.lo) + s.y
           IN  IF r.st.err # NoErr THEN r.st
               ELSE [r.st EXCEPT !.addr_abs = _addr_abs, !.ty.addr_abs = "int64",
                                 !.ret = Bool(And(_addr_abs, 65280) # r.hi * 256)] :
           r \in {Read16(s)} })

\* the page-wrap test looks at the byte read ("lower"), not at the
\* pointer's low byte
IND(s) ==
    Only({ LET pointed_addr == Or(r.hi * 256, r.lo)
               lower == cpu_read(r.st, pointed_addr)
               high_addr == IF lower = 255 THEN And(pointed_addr, 65280)
                            ELSE pointed_addr + 1
               higher == cpu_read(r.st, high_addr)
           IN  IF r.st.err # NoErr THEN r.st
               ELSE IF lower = Unbound \/ higher = Unbound THEN Raise(r.st, ULE)
               ELSE [r.st EXCEPT !.addr_abs = Or(higher * 256, lower),
                                 !.ty.addr_abs = "int64", !.ret = 0] :
           r \in {Read16(s)} })

\* value + x is a uint8 sum when x is one; the mask makes it the same
\* address either way
IZX(s) ==
    LET value == cpu_read(s, s.pc)
        k == Promote("uint8", s.ty.x)
        lower_addr == And(Narrow(k, value + s.x), 255)
        higher_addr == And(Narrow(k, value + s.x) + 1, 255)
        t == [s EXCEPT !.pc = s.pc + 1, !.ty.pc = Wide(s.ty.pc)]
    IN  IF value = Unbound THEN Raise(s, ULE)
        ELSE [t EXCEPT !.addr_abs = Or(cpu_read(t, higher_addr) * 256,
                                       cpu_read(t, lower_addr)),
                       !.ty.addr_abs = "int64",
                       !.ret = 0]

\* addr is a local: addr_abs is left as it was
IZY(s) ==
    LET value == cpu_read(s, s.pc)
        t == [s EXCEPT !.pc = s.pc + 1, !.ty.pc = Wide(s.ty.pc)]
        lower == cpu_read(t, And(value, 255))
        higher == cpu_read(t, And(value + 1, 255))
        addr == Or(higher * 256, lower) + s.y
    IN  IF value = Unbound THEN Raise(s, ULE)
        ELSE [t EXCEPT !.ret = Bool(And(addr, 65280) # higher * 256)]
\* ------------------------------------------------------------ opcodes
\* every opcode function returns its extra-cycle flag in ret

\* a + fetched is a uint8 sum, modulo 256, when both are np.uint8, and
\* adding a np.bool_ carry keeps it one: temp > 255 is then never true
ADC(s) ==
    Only({ LET ks == Promote(t.ty.a, t.ty.fetched)
               kt == Promote(ks, t.flags.ty.C)
               temp == Narrow(kt, Narrow(ks, t.a + t.fetched) + t.flags.C)
               xor_result == Xor(t.a, temp)
               not_xor_result == Invert(ks, Xor(t.a, t.fetched))
           IN  IF t.err # NoErr THEN t
               ELSE [SetZN(t, And(temp, 255) = 0, And(temp, 128), kt) EXCEPT
                        !.flags.C = Bool(temp > 255), !.flags.ty.C = Truth(kt),
                        !.flags.V = And(And(xor_result, not_xor_result), 128),
                        !.flags.ty.V = Wide(kt),
                        !.a = And(temp, 255), !.ty.a = Wide(kt),
                        !.ret = 1] :
           t \in {fetch(s)} })

AND(s) ==
    Only({ LET v == And(t.a, t.fetched)
               k == Promote(t.ty.a, t.ty.fetched)
           IN  IF t.err # NoErr THEN t
               ELSE [SetZN(t, v = 0, And(v, 128), k) EXCEPT
                        !.a = v, !.ty.a = k, !.ret = 1] :
           t \in {fetch(s)} })

\* self.opcode is the attribute, which clock() never assigns
ASL(s) ==
    Only({ LET temp == t.fetched * 2
               k == Wide(t.ty.fetched)
               u == [SetZN(t, And(temp, 255) = 0, And(temp, 128), k) EXCEPT
                        !.flags.C = Bool(And(temp, 65280) > 0),
                        !.flags.ty.C = Truth(k),
                        !.ret = 0]
           IN  IF t.err # NoErr THEN t
               ELSE IF Instruction(t.opcode).addrmode = "IMP"
                    THEN [u EXCEPT !.a = And(temp, 255), !.ty.a = k]
               ELSE cpu_write(u, u.addr_abs, And(temp, 255), k) :
           t \in {fetch(s)} })

\* BCC does not use _jump: the target is not masked to 16 bits
BCC(s) ==
    LET k == Promote(s.ty.pc, s.ty.addr_rel)
        tgt == Narrow(k, s.pc + s.addr_rel)
        c1 == s.cycle + 1
        c2 == IF And(tgt, 65280) # And(s.pc, 65280) THEN c1 + 1 ELSE c1
    IN  IF s.flags.C = 0
        THEN [s EXCEPT !.cycle = c2, !.addr_abs = tgt, !.ty.addr_abs = k,
                       !.pc = tgt, !.ty.pc = k, !.ret = 0]
        ELSE [s EXCEPT !.ret = 0]

BCS(s) == IF s.flags.C = 1 THEN [_jump(s) EXCEPT !.ret = 0] ELSE [s EXCEPT !.ret = 0]

BEQ(s) == IF s.flags.Z = 1 THEN [_jump(s) EXCEPT !.ret = 0] ELSE [s EXCEPT !.ret = 0]

BIT(s) ==
    Only({ LET temp == And(t.a, t.fetched)
           IN  IF t.err # NoErr THEN t
               ELSE [t EXCEPT !.flags.Z = Bool(And(temp, 255) = 0),
                              !.flags.ty.Z = Truth(Promote(t.ty.a, t.ty.fetched)),
                              !.flags.N = And(t.fetched, 128),
                              !.flags.ty.N = Wide(t.ty.fetched),
                              !.flags.V = And(t.fetched, 64),
                              !.flags.ty.V = Wide(t.ty.fetched),
                              !.ret = 0] :
           t \in {fetch(s)} })

BMI(s) == IF s.flags.N = 1 THEN [_jump(s) EXCEPT !.ret = 0] ELSE [s EXCEPT !.ret = 0]

BNE(s) == IF s.flags.Z = 0 THEN [_jump(s) EXCEPT !.ret = 0] ELSE [s EXCEPT !.ret = 0]

BPL(s) == IF s.flags.N = 0 THEN [_jump(s) EXCEPT !.ret = 0] ELSE [s EXCEPT !.ret = 0]

\* the byte pushed is the status attribute, not the flags; the read of
\* the vector at INTR_ADDR is not mapped and raises
BRK(s) ==
    Only({ LET lo == cpu_read(s5, INTR_ADDR)
               hi == cpu_read(s5, 65535)
           IN  IF s5.err # NoErr THEN s5
               ELSE IF lo = Unbound \/ hi = Unbound
                    THEN Raise([s5 EXCEPT !.flags.B = 0, !.flags.ty.B = "int"], ULE)
               ELSE [s5 EXCEPT !.flags.B = 0, !.flags.ty.B = "int",
                               !.pc = Or(lo, hi * 256), !.ty.pc = "int64",
                               !.ret = 0] :
           s5 \in { IF s3.err # NoErr THEN s3
                    ELSE Push([s3 EXCEPT !.flags.B = 1, !.flags.ty.B = "int"],
                              s3.status, s3.ty.status) :
                    s3 \in {PushPc([s EXCEPT !.pc = s.pc + 1,
                                             !.ty.pc = Wide(s.ty.pc),
                                             !.flags.I = 1,
                                             !.flags.ty.I = "int"])} } })

BVC(s) == IF s.flags.V = 0 THEN [_jump(s) EXCEPT !.ret = 0] ELSE [s EXCEPT !.ret = 0]

BVS(s) == IF s.flags.V = 1 THEN [_jump(s) EXCEPT !.ret = 0] ELSE [s EXCEPT !.ret = 0]

CLC(s) == [s EXCEPT !.flags.C = 0, !.flags.ty.C = "int", !.ret = 0]

CLD(s) == [s EXCEPT !.flags.D = 0, !.flags.ty.D = "int", !.ret = 0]

CLI(s) == [s EXCEPT !.flags.I = 0, !.flags.ty.I = "int", !.ret = 0]

CLV(s) == [s EXCEPT !.flags.V = 0, !.flags.ty.V = "int", !.ret = 0]

\* a - fetched is a uint8 difference, modulo 256, when both are np.uint8:
\* temp >= 0 is then always true
CMP(s) ==
    Only({ LET k == Promote(t.ty.a, t.ty.fetched)
               temp == Narrow(k, t.a - t.fetched)
           IN  IF t.err # NoErr THEN t
               ELSE [SetZN(t, And(temp, 255) = 0, And(temp, 128), k) EXCEPT
                        !.flags.C = Bool(temp >= 0), !.flags.ty.C = Truth(k),
                        !.ret = 0] :
           t \in {fetch(s)} })

CPX(s) ==
    Only({ LET k == Promote(t.ty.x, t.ty.fetched)
               temp == Narrow(k, t.x - t.fetched)
           IN  IF t.err # NoErr THEN t
               ELSE [SetZN(t, And(temp, 255) = 0, And(temp, 128), k) EXCEPT
                        !.flags.C = Bool(temp >= 0), !.flags.ty.C = Truth(k),
                        !.ret = 0] :
           t \in {fetch(s)} })

CPY(s) ==
    Only({ LET k == Promote(t.ty.y, t.ty.fetched)
               temp == Narrow(k, t.y - t.fetched)
           IN  IF t.err # NoErr THEN t
               ELSE [SetZN(t, And(temp, 255) = 0, And(temp, 128), k) EXCEPT
                        !.flags.C = Bool(temp >= 0), !.flags.ty.C = Truth(k),
                        !.ret = 0] :
           t \in {fetch(s)} })

DEC(s) ==
    Only({ LET temp == t.fetched - 1
               k == Wide(t.ty.fetched)
               u == cpu_write(t, t.addr_abs, And(temp, 255), k)
           IN  IF t.err # NoErr THEN t
               ELSE IF u.err # NoErr THEN u
               ELSE [SetZN(u, And(temp, 255) = 0, And(temp, 128), k) EXCEPT
                        !.ret = 0] :
           t \in {fetch(s)} })

\* the register is not masked to 8 bits
DEX(s) ==
    LET v == s.x - 1
        k == Wide(s.ty.x)
    IN  [SetZN(s, v = 0, And(v, 128), k) EXCEPT !.x = v, !.ty.x = k, !.ret = 0]

\* the register is not masked to 8 bits
DEY(s) ==
    LET v == s.y - 1
        k == Wide(s.ty.y)
    IN  [SetZN(s, v = 0, And(v, 128), k) EXCEPT !.y = v, !.ty.y = k, !.ret = 0]

EOR(s) ==
    Only({ LET v == Xor(t.a, t.fetched)
               k == Promote(t.ty.a, t.ty.fetched)
           IN  IF t.err # NoErr THEN t
               ELSE [SetZN(t, v = 0, And(v, 128), k) EXCEPT
                        !.a = v, !.ty.a = k, !.ret = 0] :
           t \in {fetch(s)} })

INC(s) ==
    Only({ LET temp == t.fetched + 1
               k == Wide(t.ty.fetched)
               u == cpu_write(t, t.addr_abs, And(temp, 255), k)
           IN  IF t.err # NoErr THEN t
               ELSE IF u.err # NoErr THEN u
               ELSE [SetZN(u, And(temp, 255) = 0, And(temp, 128), k) EXCEPT
                        !.ret = 0] :
           t \in {fetch(s)} })

INX(s) ==
    LET temp == s.x + 1
        k == Wide(s.ty.x)
    IN  [SetZN(s, And(temp, 255) = 0, And(temp, 128), k) EXCEPT
            !.x = And(temp, 255), !.ty.x = k, !.ret = 0]

INY(s) ==
    LET temp == s.y + 1
        k == Wide(s.ty.y)
    IN  [SetZN(s, And(temp, 255) = 0, And(temp, 128), k) EXCEPT
            !.y = And(temp, 255), !.ty.y = k, !.ret = 0]

JMP(s) == [s EXCEPT !.pc = s.addr_abs, !.ty.pc = s.ty.addr_abs, !.ret = 0]

\* JSR as it would be if it pushed pc without stepping it back
JSR_return_unadjusted(s) ==
    Only({ IF s3.err # NoErr THEN s3
           ELSE [s3 EXCEPT !.pc = s3.addr_abs, !.ty.pc = s3.ty.addr_abs,
                           !.ret = 0] :
           s3 \in {PushPc(s)} })

\* pc - 1, the address of the last operand byte, is what is pushed
JSR(s) ==
    Only({ IF s3.err # NoErr THEN s3
           ELSE [s3 EXCEPT !.pc = s3.addr_abs, !.ty.pc = s3.ty.addr_abs,
                           !.ret = 0] :
           s3 \in {PushPc([s EXCEPT !.pc = s.pc - 1, !.ty.pc = Wide(s.ty.pc)])} })

LDA(s) ==
    Only({ LET v == t.fetched
               k == t.ty.fetched
           IN  IF t.err # NoErr THEN t
               ELSE [SetZN(t, v = 0, And(v, 128), k) EXCEPT
                        !.a = v, !.ty.a = k, !.ret = 1] :
           t \in {fetch(s)} })

LDX(s) ==
    Only({ LET v == t.fetched
               k == t.ty.fetched
           IN  IF t.err # NoErr THEN t
               ELSE [SetZN(t, v = 0, And(v, 128), k) EXCEPT
                        !.x = v, !.ty.x = k, !.ret = 1] :
           t \in {fetch(s)} })

LDY(s) ==
    Only({ LET v == t.fetched
               k == t.ty.fetched
           IN  IF t.err # NoErr THEN t
               ELSE [SetZN(t, v = 0, And(v, 128), k) EXCEPT
                        !.y = v, !.ty.y = k, !.ret = 1] :
           t \in {fetch(s)} })

LSR(s) ==
    Only({ LET temp == t.fetched \div 2
               k == Wide(t.ty.fetched)
               u == [SetZN(t, And(temp, 255) = 0, And(temp, 128), k) EXCEPT
                        !.flags.C = And(t.fetched, 1), !.flags.ty.C = k,
                        !.ret = 0]
           IN  IF t.err # NoErr THEN t
               ELSE IF Instruction(t.opcode).addrmode = "IMP"
                    THEN [u EXCEPT !.a = And(temp, 255), !.ty.a = k]
               ELSE cpu_write(u, u.addr_abs, And(temp, 255), k) :
           t \in {fetch(s)} })

NOP(s) ==
    [s EXCEPT !.ret = Bool(s.opcode \in {28, 60, 92, 124, 220, 252})]

ORA(s) ==
    Only({ LET v == Or(t.a, t.fetched)
               k == Promote(t.ty.a, t.ty.fetched)
           IN  IF t.err # NoErr THEN t
               ELSE [SetZN(t, v = 0, And(v, 128), k) EXCEPT
                        !.a = v, !.ty.a = k, !.ret = 0] :
           t \in {fetch(s)} })

PHA(s) ==
    Only({ IF t.err # NoErr THEN t ELSE [t EXCEPT !.ret = 0] :
           t \in {Push(s, s.a, s.ty.a)} })

\* the byte pushed is status | B | U built from the status attribute
PHP(s) ==
    Only({ IF t.err # NoErr THEN t
           ELSE [t EXCEPT !.flags.B = 0, !.flags.ty.B = "int",
                          !.flags.U = 0, !.flags.ty.U = "int", !.ret = 0] :
           t \in {Push(s, Or(Or(s.status, s.flags.B), s.flags.U),
                       Promote(Promote(s.ty.status, s.flags.ty.B),
                               s.flags.ty.U))} })

\* PLA as it would be if it read the stack before moving the pointer
PLA_read_first(s) ==
    LET v == cpu_read(s, STACK_ADDR + s.stkp)
    IN  IF v = Unbound THEN Raise(s, ULE)
        ELSE [SetZN(s, v = 0, And(v, 128), "uint8") EXCEPT
                 !.stkp = s.stkp + 1, !.ty.stkp = Wide(s.ty.stkp),
                 !.a = v, !.ty.a = "uint8", !.ret = 0]

PLA(s) ==
    LET t == [s EXCEPT !.stkp = s.stkp + 1, !.ty.stkp = Wide(s.ty.stkp)]
        v == cpu_read(t, STACK_ADDR + t.stkp)
    IN  IF v = Unbound THEN Raise(t, ULE)
        ELSE [SetZN(t, v = 0, And(v, 128), "uint8") EXCEPT
                 !.a = v, !.ty.a = "uint8", !.ret = 0]

\* the byte popped goes to the status attribute; the flags are not loaded
PLP(s) ==
    LET t == [s EXCEPT !.stkp = s.stkp + 1, !.ty.stkp = Wide(s.ty.stkp)]
        v == cpu_read(t, STACK_ADDR + t.stkp)
    IN  IF v = Unbound THEN Raise(t, ULE)
        ELSE [t EXCEPT !.status = v, !.ty.status = "uint8",
                       !.flags.U = 1, !.flags.ty.U = "int", !.ret = 0]

\* "self.instructions[self.opcode] == self.IMP" compares an Instruction
\* with a method and is never true: the result always goes to memory
ROL(s) ==
    Only({ LET temp == Or(t.fetched * 2, t.flags.C)
               k == Promote(Wide(t.ty.fetched), t.flags.ty.C)
               u == [SetZN(t, And(temp, 255) = 0, And(temp, 128), k) EXCEPT
                        !.flags.C = And(temp, 65280), !.flags.ty.C = Wide(k),
                        !.ret = 0]
           IN  IF t.err # NoErr THEN t
               ELSE cpu_write(u, u.addr_abs, And(temp, 255), Wide(k)) :
           t \in {fetch(s)} })

ROR(s) ==
    Only({ LET temp == Or(t.fetched \div 2, t.flags.C * 128)
               k == Promote(Wide(t.ty.fetched), Wide(t.flags.ty.C))
               u == [SetZN(t, And(temp, 255) = 0, And(temp, 128), k) EXCEPT
                        !.flags.C = And(t.fetched, 1),
                        !.flags.ty.C = Wide(t.ty.fetched),
                        !.ret = 0]
           IN  IF t.err # NoErr THEN t
               ELSE cpu_write(u, u.addr_abs, And(temp, 255), Wide(k)) :
           t \in {fetch(s)} })

\* the popped byte goes to the status attribute, masked by ~B and ~U of
\* the current flags; the flags are not loaded
RTI(s) ==
    LET s1 == [s EXCEPT !.stkp = s.stkp + 1, !.ty.stkp = Wide(s.ty.stkp)]
        v == cpu_read(s1, STACK_ADDR + s1.stkp)
        kb == Promote("uint8", InvertKind(s1.flags.ty.B))
        s2 == [s1 EXCEPT !.status = And(And(v, Invert(s1.flags.ty.B, s1.flags.B)),
                                        Invert(s1.flags.ty.U, s1.flags.U)),
                         !.ty.status = Promote(kb, InvertKind(s1.flags.ty.U)),
                         !.stkp = s1.stkp + 1]
        lo == cpu_read(s2, STACK_ADDR + s2.stkp)
        s3 == [s2 EXCEPT !.pc = lo, !.ty.pc = "uint8", !.stkp = s2.stkp + 1]
        hi == cpu_read(s3, STACK_ADDR + s3.stkp)
    IN  IF v = Unbound THEN Raise(s1, ULE)
        ELSE IF lo = Unbound THEN Raise(s2, ULE)
        ELSE IF hi = Unbound THEN Raise(s3, ULE)
        ELSE [s3 EXCEPT !.pc = Or(lo, hi * 256), !.ty.pc = "int64", !.ret = 0]

RTS(s) ==
    LET s1 == [s EXCEPT !.stkp = s.stkp + 1, !.ty.stkp = Wide(s.ty.stkp)]
        lo == cpu_read(s1, STACK_ADDR + s1.stkp)
        s2 == [s1 EXCEPT !.pc = lo, !.ty.pc = "uint8", !.stkp = s1.stkp + 1]
        hi == cpu_read(s2, STACK_ADDR + s2.stkp)
    IN  IF lo = Unbound THEN Raise(s1, ULE)
        ELSE IF hi = Unbound THEN Raise(s2, ULE)
        ELSE [s2 EXCEPT !.pc = Or(lo, hi * 256) + 1, !.ty.pc = "int64", !.ret = 0]

\* SBC as it would be if it added the operand without inverting it
SBC_not_inverted(s) ==
    Only({ LET value == t.fetched
               k == Promote(Promote(t.ty.a, Wide(t.ty.fetched)), t.flags.ty.C)
               temp == t.a + value + t.flags.C
           IN  IF t.err # NoErr THEN t
               ELSE [SetZN(t, And(temp, 255) = 0, And(temp, 128), k) EXCEPT
                        !.flags.C = And(temp, 65280), !.flags.ty.C = Wide(k),
                        !.flags.V = And(And(Xor(temp, t.a), Xor(temp, value)), 128),
                        !.flags.ty.V = Wide(k),
                        !.a = And(temp, 255), !.ty.a = Wide(k),
                        !.ret = 1] :
           t \in {fetch(s)} })

\* fetched ^ 0x00FF has a Python int operand, so the sum is never a uint8
SBC(s) ==
    Only({ LET value == Xor(t.fetched, 255)
               k == Promote(Promote(t.ty.a, Wide(t.ty.fetched)), t.flags.ty.C)
               temp == t.a + value + t.flags.C
           IN  IF t.err # NoErr THEN t
               ELSE [SetZN(t, And(temp, 255) = 0, And(temp, 128), k) EXCEPT
                        !.flags.C = And(temp, 65280), !.flags.ty.C = Wide(k),
                        !.flags.V = And(And(Xor(temp, t.a), Xor(temp, value)), 128),
                        !.flags.ty.V = Wide(k),
                        !.a = And(temp, 255), !.ty.a = Wide(k),
                        !.ret = 1] :
           t \in {fetch(s)} })

SEC(s) == [s EXCEPT !.flags.C = 1, !.flags.ty.C = "int", !.ret = 0]

SED(s) == [s EXCEPT !.flags.D = 1, !.flags.ty.D = "int", !.ret = 0]

SEI(s) == [s EXCEPT !.flags.I = 1, !.flags.ty.I = "int", !.ret = 0]

STA(s) ==
    Only({ IF t.err # NoErr THEN t ELSE [t EXCEPT !.ret = 0] :
           t \in {cpu_write(s, s.addr_abs, s.a, s.ty.a)} })

STX(s) ==
    Only({ IF t.err # NoErr THEN t ELSE [t EXCEPT !.ret = 0] :
           t \in {cpu_write(s, s.addr_abs, s.x, s.ty.x)} })

STY(s) ==
    Only({ IF t.err # NoErr THEN t ELSE [t EXCEPT !.ret = 0] :
           t \in {cpu_write(s, s.addr_abs, s.y, s.ty.y)} })

TAX(s) ==
    [SetZN(s, s.a = 0, And(s.a, 128), s.ty.a) EXCEPT
        !.x = s.a, !.ty.x = s.ty.a, !.ret = 0]

TAY(s) ==
    [SetZN(s, s.a = 0, And(s.a, 128), s.ty.a) EXCEPT
        !.y = s.a, !.ty.y = s.ty.a, !.ret = 0]

TSX(s) ==
    [SetZN(s, s.stkp = 0, And(s.stkp, 128), s.ty.stkp) EXCEPT
        !.x = s.stkp, !.ty.x = s.ty.stkp, !.ret = 0]

TXA(s) ==
    [SetZN(s, s.x = 0, And(s.x, 128), s.ty.x) EXCEPT
        !.a = s.x, !.ty.a = s.ty.x, !.ret = 0]

TXS(s) == [s EXCEPT !.stkp = s.x, !.ty.stkp = s.ty.x, !.ret = 0]

TYA(s) ==
    [SetZN(s, s.y = 0, And(s.y, 128), s.ty.y) EXCEPT
        !.a = s.y, !.ty.a = s.ty.y, !.ret = 0]

XXX(s) == [s EXCEPT !.ret = 0]

\* instruction.addrmode()
AddrMode(md, s) ==
    CASE md = "IMP" -> IMP(s)
      [] md = "IMM" -> IMM(s)
      [] md = "ZP0" -> ZP0(s)
      [] md = "ZPX" -> ZPX(s)
      [] md = "ZPY" -> ZPY(s)
      [] md = "REL" -> REL(s)
      [] md = "ABS" -> ABS(s)
      [] md = "ABX" -> ABX(s)
      [] md = "ABY" -> ABY(s)
      [] md = "IND" -> IND(s)
      [] md = "IZX" -> IZX(s)
      [] md = "IZY" -> IZY(s)

\* instruction.opcode()
Operate(op, s) ==
    CASE op = "ADC" -> ADC(s)
      [] op = "AND" -> AND(s)
      [] op = "ASL" -> ASL(s)
      [] op = "BCC" -> BCC(s)
      [] op = "BCS" -> BCS(s)
      [] op = "BEQ" -> BEQ(s)
      [] op = "BIT" -> BIT(s)
      [] op = "BMI" -> BMI(s)
      [] op = "BNE" -> BNE(s)
      [] op = "BPL" -> BPL(s)
      [] op = "BRK" -> BRK(s)
      [] op = "BVC" -> BVC(s)
      [] op = "BVS" -> BVS(s)
      [] op = "CLC" -> CLC(s)
      [] op = "CLD" -> CLD(s)
      [] op = "CLI" -> CLI(s)
      [] op = "CLV" -> CLV(s)
      [] op = "CMP" -> CMP(s)
      [] op = "CPX" -> CPX(s)
      [] op = "CPY" -> CPY(s)
      [] op = "DEC" -> DEC(s)
      [] op = "DEX" -> DEX(s)
      [] op = "DEY" -> DEY(s)
      [] op = "EOR" -> EOR(s)
      [] op = "INC" -> INC(s)
      [] op = "INX" -> INX(s)
      [] op = "INY" -> INY(s)
      [] op = "JMP" -> JMP(s)
      [] op = "JSR" -> JSR(s)
      [] op = "LDA" -> LDA(s)
      [] op = "LDX" -> LDX(s)
      [] op = "LDY" -> LDY(s)
      [] op = "LSR" -> LSR(s)
      [] op = "NOP" -> NOP(s)
      [] op = "ORA" -> ORA(s)
      [] op = "PHA" -> PHA(s)
      [] op = "PHP" -> PHP(s)
      [] op = "PLA" -> PLA(s)
      [] op = "PLP" -> PLP(s)
      [] op = "ROL" -> ROL(s)
      [] op = "ROR" -> ROR(s)
      [] op = "RTI" -> RTI(s)
      [] op = "RTS" -> RTS(s)
      [] op = "SBC" -> SBC(s)
      [] op = "SEC" -> SEC(s)
      [] op = "SED" -> SED(s)
      [] op = "SEI" -> SEI(s)
      [] op = "STA" -> STA(s)
      [] op = "STX" -> STX(s)
      [] op = "STY" -> STY(s)
      [] op = "TAX" -> TAX(s)
      [] op = "TAY" -> TAY(s)
      [] op = "TSX" -> TSX(s)
      [] op = "TXA" -> TXA(s)
      [] op = "TXS" -> TXS(s)
      [] op = "TYA" -> TYA(s)
      [] op = "XXX" -> XXX(s)

\* ------------------------------------------------------------ SY6502
\* the attributes of a SY6502 object (cpu_ram is shared with the bus)
CpuFields ==
    {"a", "x", "y", "stkp", "pc", "status", "fetched", "addr_abs", "addr_rel",
     "opcode", "cycle", "flags", "cpu_ram", "ty"}

\* the kinds of the attributes that hold numbers: Python ints, as the
\* constructor's literals are
PyInts ==
    [a |-> "int", x |-> "int", y |-> "int", stkp |-> "int", pc |-> "int",
     status |-> "int", fetched |-> "int", addr_abs |-> "int", addr_rel |-> "int"]

\* SY6502.__init__: every attribute but pc, which the constructor never
\* assigns (its assignment is part of the comment that ends line 113)
SY6502 ==
    [a |-> 0, x |-> 0, y |-> 0, stkp |-> 0, pc |-> NoAttr, status |-> 0,
     fetched |-> 0, addr_abs |-> 0, addr_rel |-> 0, opcode |-> 0, cycle |-> 0,
     flags |-> FLAGS6502, cpu_ram |-> << >>, ty |-> PyInts]

\* the record an operation works on: the attributes, the exception raised
\* so far, the value returned by the last mode or opcode function, and the
\* outcome of an out-of-range store
Enter(c, o) == c @@ [err |-> NoErr, ret |-> 0, ovf |-> o]

Leave(s) == [k \in CpuFields |-> s[k]]

\* the body of "if self.cycle == 0" once the opcode byte is read: addr_cycle
\* is what the mode function returns, oper_cycle what the opcode function
\* returns; new_cycle replaces whatever the opcode function did to cycle
Execute(s1, instruction) ==
    Only({ IF r.st.err # NoErr THEN r.st
           ELSE [r.st EXCEPT !.cycle = instruction.cycle
                                         + And(r.addr_cycle, r.st.ret)] :
           r \in { IF s2.err # NoErr THEN [st |-> s2, addr_cycle |-> 0]
                   ELSE [st |-> Operate(instruction.opcode, s2),
                         addr_cycle |-> s2.ret] :
                   s2 \in {AddrMode(instruction.addrmode, s1)} } })

\* clock() as it would be if it counted down without looking at the count
clock_always_counts(s) == [s EXCEPT !.cycle = s.cycle - 1]

\* clock()
clock(s) ==
    IF s.cycle = 0
    THEN IF s.pc = NoAttr THEN Raise(s, ATE)
         ELSE Only({ IF opc = Unbound THEN Raise(s, ULE)
                     ELSE Only({ IF t.err # NoErr THEN t
                                 ELSE [t EXCEPT !.cycle = t.cycle - 1] :
                                 t \in {Execute([s EXCEPT !.pc = s.pc + 1,
                                                          !.ty.pc = Wide(s.ty.pc),
                                                          !.flags.U = 1,
                                                          !.flags.ty.U = "int"],
                                                Instruction(opc))} }) :
                     opc \in {cpu_read(s, s.pc)} })
    ELSE [s EXCEPT !.cycle = s.cycle - 1]

\* complete()
complete(s) == s.cycle = 0

\* reset(): the flags object is not touched; the vector at INIT_ADDR is
\* read with cpu_read
reset(s) ==
    LET s1 == [s EXCEPT !.a = 0, !.x = 0, !.y = 0, !.stkp = 253,
                        !.status = Or(0, s.flags.U),
                        !.ty.a = "int", !.ty.x = "int", !.ty.y = "int",
                        !.ty.stkp = "int",
                        !.ty.status = Promote("int", s.flags.ty.U)]
        lower == cpu_read(s1, INIT_ADDR)
        higher == cpu_read(s1, INIT_ADDR + 1)
    IN  IF lower = Unbound \/ higher = Unbound THEN Raise(s1, ULE)
        ELSE [s1 EXCEPT !.pc = Or(higher * 256, lower), !.addr_rel = 0,
                        !.addr_abs = 0, !.fetched = 0, !.cycle = RESET_TIME,
                        !.ty.pc = "int64", !.ty.addr_rel = "int",
                        !.ty.addr_abs = "int", !.ty.fetched = "int"]

\* the body shared by irq() and nmi(): push pc and the flags, load pc from
\* the vector, set the cycle count
Interrupt(s, vector, time) ==
    IF s.pc = NoAttr THEN Raise(s, ATE)
    ELSE Only({ LET lower == cpu_read(s4, vector)
                    higher == cpu_read(s4, vector + 1)
                IN  IF s4.err # NoErr THEN s4
                    ELSE IF lower = Unbound \/ higher = Unbound THEN Raise(s4, ULE)
                    ELSE [s4 EXCEPT !.pc = Or(higher * 256, lower),
                                    !.ty.pc = "int64", !.cycle = time] :
                s4 \in { IF s3.err # NoErr THEN s3
                         ELSE Only({ IF e.err # NoErr THEN Raise(s3, e.err)
                                     ELSE Push(s3, ExtractData(e), ExtractKind(e)) :
                                     e \in {extract(s3.flags)} }) :
                         s3 \in { IF s2.err # NoErr THEN s2
                                  ELSE [s2 EXCEPT !.flags.B = 0, !.flags.U = 1,
                                                  !.flags.I = 1,
                                                  !.flags.ty.B = "int",
                                                  !.flags.ty.U = "int",
                                                  !.flags.ty.I = "int"] :
                                  s2 \in {PushPc(s)} } } })

\* the test of irq() as it would be if it let every request through
FlagsEqZero_unmasked(f) == TRUE

\* the test "self.flags == 0" of irq(): a FLAGS6502 object compared with
\* an int, which is never equal
FlagsEqZero(f) == FALSE

\* irq()
irq(s) == IF FlagsEqZero(s.flags) THEN Interrupt(s, INTR_ADDR, INTR_TIME) ELSE s

\* nmi()
nmi(s) == Interrupt(s, NMI_ADDR, NMI_TIME)

\* ------------------------------------------------------------ disassembler
\* A string is kept as the sequence of its pieces; the string is their
\* concatenation.  "U+2028" stands for the line separator character.
HexDigit == <<"0", "1", "2", "3", "4", "5", "6", "7",
              "8", "9", "A", "B", "C", "D", "E", "F">>

\* the hexadecimal digits of n >= 0, most significant first
RECURSIVE HexOf(_)
HexOf(n) ==
    IF n < 16 THEN <<HexDigit[n + 1]>>
    ELSE HexOf(n \div 16) \o <<HexDigit[(n % 16) + 1]>>

RECURSIVE ZeroPad(_, _)
ZeroPad(d, w) == IF Len(d) >= w THEN d ELSE ZeroPad(<<"0">> \o d, w)

\* f"{n:0{w}X}": the sign counts in the width
Hex(n, w) ==
    IF n >= 0 THEN ZeroPad(HexOf(n), w)
    ELSE <<"-">> \o ZeroPad(HexOf(0 - n), w - 1)

\* piece * k
Repeat(piece, k) == [i \in 1..k |-> piece]

\* the operand bytes the disassembler reads for a mode
OperandBytes(md) ==
    IF md = "IMP" THEN 0
    ELSE IF md \in {"ABS", "ABX", "ABY", "IND"} THEN 2
    ELSE 1

\* the operand text of a line: lo and hi are the bytes read, next the
\* address after them
OperandText(md, lo, hi, next) ==
    IF md = "IMP" THEN <<" {IMP}">>
    ELSE IF md = "IMM" THEN <<"#$">> \o Hex(lo, 2) \o <<" {IMM}">>
    ELSE IF md \in {"ZP0", "ZPX", "ZPY", "IZX", "IZY"}
         THEN <<"$">> \o Hex(lo, 2) \o <<" ", md>>
    ELSE IF md \in {"ABS", "ABX", "ABY", "IND"}
         THEN <<"$">> \o Hex(Or(hi * 256, lo), 4) \o <<" ", md>>
    ELSE <<"$">> \o Hex(lo, 2) \o <<" [$">> \o Hex(next + lo, 4) \o <<"]", " {REL}">>

\* one turn of the loop of disassemble: the line at addr, the address of
\* the next line and the exception raised.  Reading an unmapped byte raises
\* UnboundLocalError, comparing with an unassigned pc AttributeError.
DisLine(c, addr) ==
    LET opcode == cpu_read(c, addr)
        md == Instruction(opcode).addrmode
        n == OperandBytes(md)
        lo == IF n >= 1 THEN cpu_read(c, addr + 1) ELSE 0
        hi == IF n = 2 /\ lo # Unbound THEN cpu_read(c, addr + 2) ELSE 0
        next == addr + 1 + n
        s_inst == <<"$">> \o Hex(addr, 4) \o <<": ", Instruction(opcode).name, " ">>
                  \o OperandText(md, lo, hi, next)
    IN  IF opcode = Unbound THEN [line |-> << >>, next |-> addr, err |-> ULE]
        ELSE IF lo = Unbound \/ hi = Unbound
             THEN [line |-> << >>, next |-> addr, err |-> ULE]
        ELSE IF c.pc = NoAttr THEN [line |-> << >>, next |-> addr, err |-> ATE]
        ELSE [line |-> (IF c.pc = next THEN <<"> ">> ELSE <<"  ">>) \o s_inst,
              next |-> next, err |-> NoErr]

\* "while addr <= end": the map and the exception raised
RECURSIVE DisLoop(_, _, _, _)
DisLoop(c, addr, end, map) ==
    IF addr > end THEN [map |-> map, err |-> NoErr]
    ELSE Only({ IF l.err # NoErr THEN [map |-> << >>, err |-> l.err]
                ELSE DisLoop(c, l.next, end, (addr :> l.line) @@ map) :
                l \in {DisLine(c, addr)} })

\* the body of disassemble(start, end)
Disassembly(c, start, end) ==
    LET padding == IF start < 0 THEN 0 - start ELSE 0
    IN  DisLoop(c, IF start < 0 THEN 0 ELSE start, end + padding \div 4,
                (-1) :> Repeat("U+2028", padding \div 4))

\* a disassembler that leaves its last address in pc
disassemble_moving_pc(c, start, end) ==
    [cpu |-> [c EXCEPT !.pc = end]] @@ Disassembly(c, start, end)

\* SY6502.disassemble(start, end): the CPU object after the call, the map
\* returned and the exception raised; the method assigns only locals
disassemble(c, start, end) == [cpu |-> c] @@ Disassembly(c, start, end)

\* ------------------------------------------------------------ Visual2C02
\* a pixel of dp_screen has 4 bytes
PixelBytes == 4

\* nes_colors is imported from nsim/hw/colors.py, which is not among the
\* sources: the length of its entries is either that of a pixel, or 3, the
\* RGB triples the annotation of dp_colors names
ColorWidths == {3, PixelBytes}

\* the attributes of the PPU that clock() reads and writes; dp_colors is
\* the length of the entries of the colour table
Visual2C02(nes_colors) ==
    [cycle |-> 0, scanline |-> 0, frame_complete |-> FALSE, dp_colors |-> nes_colors]

\* dp_screen has 240 rows and 256 columns; an index below -size or from
\* size upwards raises IndexError
ScreenRows == 240
ScreenCols == 256

\* Visual2C02.clock(): writes the pixel dp_screen[scanline, cycle - 1],
\* then advances cycle and scanline.  The store raises IndexError for an
\* index outside the screen and ValueError for an entry of the colour
\* table that does not fill a pixel.  The result is the PPU and the
\* exception raised.
ppu_clock(p) ==
    LET c1 == p.cycle + 1
        wrap == c1 >= 341
        l1 == IF wrap THEN p.scanline + 1 ELSE p.scanline
        done == wrap /\ l1 >= 261
    IN  IF p.scanline >= ScreenRows \/ p.scanline < 0 - ScreenRows
           \/ p.cycle - 1 >= ScreenCols \/ p.cycle - 1 < 0 - ScreenCols
        THEN [ppu |-> p, err |-> IDE]
        ELSE IF p.dp_colors # PixelBytes THEN [ppu |-> p, err |-> VLE]
        ELSE [ppu |-> [p EXCEPT !.cycle = IF wrap THEN 0 ELSE c1,
                                !.scanline = IF done THEN -1 ELSE l1,
                                !.frame_complete = p.frame_complete \/ done],
              err |-> NoErr]

\* ------------------------------------------------------------ Cartridge

\* Mapper000.cpu_map_read: the offset, or None below $8000
cpu_map_read(prg_banks, addr) ==
    IF 32768 <= addr /\ addr <= 65535
    THEN And(addr, IF prg_banks > 1 THEN 32767 ELSE 16383)
    ELSE None

\* self.mapper and self.prg_memory are None until a file is loaded
NoMapper == [kind |-> "None", prg_banks |-> 0]
NoMemory == [kind |-> "None", size |-> 0, cells |-> << >>]

\* Mapper000(prg_banks, chr_banks)
Mapper000(prg_banks) == [kind |-> "Mapper000", prg_banks |-> prg_banks]

\* a uint8 array of size bytes, kept as the function of its nonzero bytes
Memory(size, cells) == [kind |-> "array", size |-> size, cells |-> cells]

\* Cartridge.__init__ without a file: load_cart prints "No cartridge." and
\* returns, so there is no mapper and no memory
NoCartridge == [mapper |-> NoMapper, n_prgbanks |-> 0, prg_memory |-> NoMemory]

\* cart[from:to].copy() for 0 <= from <= to, cart being the bytes of the
\* file that follow its 16-byte header: a slice stops where the file does
Slice(file, from, to) ==
    LET stop == IF to < file.size THEN to ELSE file.size
    IN  Memory(IF stop > from THEN stop - from ELSE 0,
               [i \in {j - from : j \in {k \in DOMAIN file.cells : from <= k /\ k < stop}}
                   |-> file.cells[i + from]])

\* load_cart on a file with flag bytes mapper1 and mapper2, prg_rom_chunks
\* in its header and the bytes file after the header: the cartridge and the
\* exception raised.  Only cart_type 1 copies the program ROM, which
\* follows the 512-byte trainer when bit 2 of mapper1 is set, and only
\* mapper 0 is in the table of mappers.
load_cart(c, mapper1, mapper2, prg_rom_chunks, file) ==
    LET cart_type == Or((mapper2 \div 16) * 16, mapper1 \div 16)
        start == Bool(And(mapper1, 4) # 0) * 512
    IN  IF cart_type = 0
        THEN [cart |-> [c EXCEPT !.mapper = Mapper000(c.n_prgbanks)], err |-> NoErr]
        ELSE IF cart_type = 1
        THEN [cart |-> [c EXCEPT !.n_prgbanks = prg_rom_chunks,
                                 !.prg_memory = Slice(file, start,
                                                      start + prg_rom_chunks * 16384)],
              err |-> KYE]
        ELSE IF cart_type = 2 THEN [cart |-> c, err |-> KYE]
        ELSE [cart |-> c, err |-> VLE]

\* self.prg_memory[mapped], mapped >= 0
PrgAt(mem, mapped) ==
    IF mem.kind = "None" THEN [val |-> None, err |-> TPE]
    ELSE IF mapped >= mem.size THEN [val |-> None, err |-> IDE]
    ELSE [val |-> RamAt(mem.cells, mapped), err |-> NoErr]

\* Cartridge.cpu_read: "if mapped:" is false for None and for offset 0
cart_cpu_read(c, addr) ==
    IF c.mapper.kind = "None" THEN [val |-> None, err |-> ATE]
    ELSE Only({ IF mapped # None /\ mapped # 0 THEN PrgAt(c.prg_memory, mapped)
                ELSE [val |-> None, err |-> NoErr] :
                mapped \in {cpu_map_read(c.mapper.prg_banks, addr)} })

\* Mapper000.cpu_map_write: the offset, or None below $8000
cpu_map_write(prg_banks, addr) ==
    IF 32768 <= addr /\ addr <= 65535
    THEN And(addr, IF prg_banks > 1 THEN 32767 ELSE 16383)
    ELSE None

\* Cartridge.cpu_write of a byte: the cartridge, the value returned and the
\* exception raised; "if mapped:" is false for None and for offset 0
cart_cpu_write(c, addr, data) ==
    IF c.mapper.kind = "None" THEN [cart |-> c, val |-> None, err |-> ATE]
    ELSE Only({ IF mapped = None \/ mapped = 0
                THEN [cart |-> c, val |-> FALSE, err |-> NoErr]
                ELSE IF c.prg_memory.kind = "None"
                THEN [cart |-> c, val |-> None, err |-> TPE]
                ELSE IF mapped >= c.prg_memory.size
                THEN [cart |-> c, val |-> None, err |-> IDE]
                ELSE [cart |-> [c EXCEPT !.prg_memory.cells = RamPut(@, mapped, data)],
                      val |-> TRUE, err |-> NoErr] :
                mapped \in {cpu_map_write(c.mapper.prg_banks, addr)} })

\* ------------------------------------------------------------ Bus6502
\* a system is the record [cpu, ppu, clock_counter, exc]: the attributes
\* cpu, ppu and clock_counter of a Bus6502 object, and the exception that
\* ended the last call made on it
Sys(c, p, n, e) == [cpu |-> c, ppu |-> p, clock_counter |-> n, exc |-> e]

\* Bus6502(): the constructor assigns cpu, ppu and clock_counter and then
\* calls __post_init__, which calls cpu.inject_parent_functions, a method
\* SY6502 does not have.  The constructor raises AttributeError and
\* returns no object; the attributes below are those of the object it
\* leaves half built, which is the only Bus6502 object there is.
Bus6502(nes_colors) == Sys(SY6502, Visual2C02(nes_colors), 0, ATE)

\* Bus6502.clock()
bus_clock(m, o) ==
    Only({ IF p.err # NoErr THEN Sys(m.cpu, m.ppu, m.clock_counter, p.err)
           ELSE IF m.clock_counter % 3 = 0
                THEN Only({ IF s.err # NoErr
                            THEN Sys(Leave(s), p.ppu, m.clock_counter, s.err)
                            ELSE Sys(Leave(s), p.ppu, m.clock_counter + 1, NoErr) :
                            s \in {clock(Enter(m.cpu, o))} })
           ELSE Sys(m.cpu, p.ppu, m.clock_counter + 1, NoErr) :
           p \in {ppu_clock(m.ppu)} })

\* Bus6502.reset(): cpu.reset(), then the counter and the RAM are cleared
\* and cpu.reload_memory is called, a method SY6502 does not have
bus_reset(m, o) ==
    Only({ IF s.err # NoErr THEN Sys(Leave(s), m.ppu, m.clock_counter, s.err)
           ELSE Sys([Leave(s) EXCEPT !.cpu_ram = << >>], m.ppu, 0, ATE) :
           s \in {reset(Enter(m.cpu, o))} })

\* Visual2C02.cpu_read: every branch is "pass"
ppu_cpu_read(addr) == None

\* Bus6502.cpu_read: RAM below $2000, the PPU from $2000 to $3FFF, else
\* the initial 0
bus_cpu_read(m, addr) ==
    IF Mapped(addr) THEN RamAt(m.cpu.cpu_ram, And(addr, RAM_MASK))
    ELSE IF 8192 <= addr /\ addr <= 16383 THEN ppu_cpu_read(And(addr, 7))
    ELSE 0

\* Bus6502.cpu_write: RAM below $2000; Visual2C02.cpu_write does nothing
bus_cpu_write(m, addr, data, o) ==
    IF m.exc # NoErr \/ ~Mapped(addr) THEN m
    ELSE IF data \in 0..255
         THEN [m EXCEPT !.cpu.cpu_ram = RamPut(@, And(addr, RAM_MASK), data)]
    ELSE IF o = "wrap"
         THEN [m EXCEPT !.cpu.cpu_ram = RamPut(@, And(addr, RAM_MASK), data % 256)]
    ELSE [m EXCEPT !.exc = OVE]

\* ------------------------------------------------------------ Debugger
\* "while not self.cpu.complete(): self.nes.clock()"
RECURSIVE UntilComplete(_, _)
UntilComplete(m, o) ==
    IF m.exc # NoErr \/ complete(m.cpu) THEN m
    ELSE Only({ UntilComplete(n, o) : n \in {bus_clock(m, o)} })

\* "while self.cpu.complete(): self.nes.clock()"
RECURSIVE WhileComplete(_, _)
WhileComplete(m, o) ==
    IF m.exc # NoErr \/ ~complete(m.cpu) THEN m
    ELSE Only({ WhileComplete(n, o) : n \in {bus_clock(m, o)} })

\* "while not self.nes.ppu.frame_complete: self.nes.clock()"
RECURSIVE UntilFrame(_, _)
UntilFrame(m, o) ==
    IF m.exc # NoErr \/ m.ppu.frame_complete THEN m
    ELSE Only({ UntilFrame(n, o) : n \in {bus_clock(m, o)} })

\* a statement that runs only when no exception is pending
Next1(m, o) == IF m.exc # NoErr THEN m ELSE bus_clock(m, o)

\* on_key_press, key C: step one instruction
key_C(m, o) ==
    Only({ WhileComplete(m3, o) :
           m3 \in { Next1(m2, o) :
                    m2 \in { UntilComplete(m1, o) : m1 \in {bus_clock(m, o)} } } })

\* on_key_press, key F: step one frame
key_F(m, o) ==
    Only({ IF r.exc # NoErr THEN r ELSE [r EXCEPT !.ppu.frame_complete = FALSE] :
           r \in { UntilComplete(m3, o) :
                   m3 \in { Next1(m2, o) :
                            m2 \in { UntilFrame(m1, o) : m1 \in {bus_clock(m, o)} } } } })

\* the bytes the disassembler view shows before and after pc
DISBLR_BEFOR == 14
DISBLR_AFTER == 24

\* Debugger.draw_views(): the exception it raises.  The memory views
\* read the work RAM; add_register_view formats cpu.pc, which raises
\* AttributeError while pc is unassigned; add_disassembler_view calls
\* cpu.disassemble(pc - DISBLR_BEFOR, pc + DISBLR_AFTER).
draw_views(c) ==
    IF c.pc = NoAttr THEN ATE
    ELSE Disassembly(c, c.pc - DISBLR_BEFOR, c.pc + DISBLR_AFTER).err

\* where debug_cpu_program loads its program
CodeBase == 256

\* the object code of debug_cpu_program: 10 times 3 by repeated addition
MultiplyProgram ==
    <<162, 10, 142, 0, 0, 162, 3, 142, 1, 0, 172, 0, 0, 169, 0, 24,
      109, 1, 0, 136, 208, 250, 141, 2, 0, 234, 234, 234, 234, 234, 234, 234,
      234>>

\* "for code in ...: self.nes.cpu_write(addr=offset, data=...); offset += 1"
RECURSIVE WriteCode(_, _, _, _)
WriteCode(m, offset, code, o) ==
    IF code = << >> THEN m
    ELSE Only({ WriteCode(n, offset + 1, Tail(code), o) :
                n \in {bus_cpu_write(m, offset, Head(code), o)} })

\* Debugger.debug_cpu_program: the program at $0100, the reset vector
\* written at $FFFC & $07FF and $FFFD & $07FF, then cpu.reset()
debug_cpu_program(m, o) ==
    Only({ Only({ Sys(Leave(s), w.ppu, w.clock_counter, s.err) :
                  s \in {reset(Enter(w.cpu, o))} }) :
           w \in { bus_cpu_write(v, And(INIT_ADDR + 1, RAM_MASK), 1, o) :
                   v \in { bus_cpu_write(u, And(INIT_ADDR, RAM_MASK), 0, o) :
                           u \in {WriteCode(m, CodeBase, MultiplyProgram, o)} } } })

\* ------------------------------------------------------------ state
VARIABLES
    cpu,            \* the SY6502 object
    ppu,            \* the Visual2C02 object
    clock_counter,  \* Bus6502.clock_counter
    exc,            \* the exception the last call raised, or NoErr
    call,           \* the last call made
    pre,            \* the SY6502 object as it was before the last CPU or bus call
    ncalls,         \* the number of calls made
    start,          \* the SY6502 object as it was before the first call
    io,             \* the byte last given to apply() and what extract() returned
    out,            \* what the last calls that return a value returned, latest first
    cart            \* the Cartridge object

vars == <<cpu, ppu, clock_counter, exc, call, pre, ncalls, start, io, out, cart>>

\* a run stops at the first call that raises.  It starts on the half-built
\* object with the constructor's exception caught, so before the first
\* call exc is the constructor's AttributeError.
Running == exc = NoErr \/ call = "init"

\* no byte loaded, nothing returned
NoIO == [byte |-> -1, ret |-> [mant |-> -1, shift |-> 0, kind |-> "int", err |-> NoErr]]

\* nothing returned yet
NoOut == << >>

\* the number of calls explored from an initial state
MaxCalls == 3

\* the RAM image with the bytes of code at base
Image(base, code) ==
    [i \in {base + k - 1 : k \in {j \in 1..Len(code) : code[j] # 0}}
        |-> code[i - base + 1]]

\* the programs the runs start from:
\*   NOP NOP NOP / LDA $10; NOP / PHP; NOP / DEX; BCC -4 /
\*   LDA #$50; ADC #$50; STA $0300
Programs ==
    { <<234, 234, 234>>,
      <<165, 16, 234>>,
      <<8, 234>>,
      <<202, 144, 252>>,
      <<169, 80, 105, 80, 141, 0, 3>> }

\* the stack pointers, carry and interrupt-disable values a run starts with
StartStkp == {0, 253}
StartBit == {0, 1}

\* a constructed CPU, with the attributes a loader or a test assigns
\* before it runs the CPU: a program in RAM, pc (or pc left unassigned),
\* the stack pointer and the C and I flags
StartCpu ==
    { [SY6502 EXCEPT !.cpu_ram = Image(CodeBase, code), !.pc = p, !.stkp = sp,
                     !.flags.C = fc, !.flags.I = fi] :
        code \in Programs, p \in {NoAttr, CodeBase}, sp \in StartStkp,
        fc \in StartBit, fi \in StartBit }

Init ==
    /\ cpu \in StartCpu
    /\ ppu \in {Visual2C02(w) : w \in ColorWidths}
    /\ clock_counter = 0
    /\ exc = Bus6502(ppu.dp_colors).exc
    /\ call = "init"
    /\ pre = cpu
    /\ ncalls = 0
    /\ start = cpu
    /\ io = NoIO
    /\ out = NoOut
    /\ cart = NoCartridge

StoreOutcomes == {"wrap", "raise"}

\* the bookkeeping of a call named nm
Called(nm) ==
    /\ ncalls < MaxCalls
    /\ call' = nm
    /\ pre' = cpu
    /\ ncalls' = ncalls + 1
    /\ UNCHANGED <<start, io, out, cart>>

\* a call of a CPU method whose result is s
CpuCall(nm, s) ==
    /\ Called(nm)
    /\ cpu' = Leave(s)
    /\ exc' = s.err
    /\ UNCHANGED <<ppu, clock_counter>>

\* a call of a bus or debugger method whose result is m
SysCall(nm, m) ==
    /\ Called(nm)
    /\ cpu' = m.cpu
    /\ ppu' = m.ppu
    /\ clock_counter' = m.clock_counter
    /\ exc' = m.exc

\* the system as a call finds it
System == Sys(cpu, ppu, clock_counter, NoErr)

\* cpu.clock()
Clock ==
    \E o \in StoreOutcomes : \E s \in {clock(Enter(cpu, o))} : CpuCall("clock", s)

\* cpu.reset()
Reset ==
    \E o \in StoreOutcomes : \E s \in {reset(Enter(cpu, o))} : CpuCall("reset", s)

\* cpu.irq()
Irq ==
    \E o \in StoreOutcomes : \E s \in {irq(Enter(cpu, o))} : CpuCall("irq", s)

\* cpu.nmi()
Nmi ==
    \E o \in StoreOutcomes : \E s \in {nmi(Enter(cpu, o))} : CpuCall("nmi", s)

\* nes.clock()
BusClock ==
    \E o \in StoreOutcomes : \E m \in {System} :
        \E n \in {bus_clock(m, o)} : SysCall("bus_clock", n)

\* nes.reset()
BusReset ==
    \E o \in StoreOutcomes : \E m \in {System} :
        \E n \in {bus_reset(m, o)} : SysCall("bus_reset", n)

Next == Clock \/ Reset \/ Irq \/ Nmi \/ BusClock \/ BusReset

Spec == Init /\ [][Next]_vars

\* on_key_press: the branch of the key has run and left m; draw_views()
\* follows unless the branch raised
on_key_press(m) ==
    IF m.exc # NoErr THEN m ELSE [m EXCEPT !.exc = draw_views(m.cpu)]

\* on_key_press with the keys C, F, R, I, N and D of the debugger
KeyC ==
    \E o \in StoreOutcomes : \E m \in {System} :
        \E n \in {on_key_press(key_C(m, o))} : SysCall("key_C", n)

KeyF ==
    \E o \in StoreOutcomes : \E m \in {System} :
        \E n \in {on_key_press(key_F(m, o))} : SysCall("key_F", n)

KeyR ==
    \E o \in StoreOutcomes : \E m \in {System} :
        \E n \in {on_key_press(bus_reset(m, o))} : SysCall("key_R", n)

KeyI ==
    \E o \in StoreOutcomes : \E s \in {irq(Enter(cpu, o))} :
        \E n \in {on_key_press(Sys(Leave(s), ppu, clock_counter, s.err))} :
            SysCall("key_I", n)

KeyN ==
    \E o \in StoreOutcomes : \E s \in {nmi(Enter(cpu, o))} :
        \E n \in {on_key_press(Sys(Leave(s), ppu, clock_counter, s.err))} :
            SysCall("key_N", n)

\* self.close() leaves the CPU, the PPU and the bus as they are
KeyD ==
    \E n \in {on_key_press(System)} : SysCall("key_D", n)

NextDbg == KeyC \/ KeyF \/ KeyR \/ KeyI \/ KeyN \/ KeyD

SpecDbg == Init /\ [][NextDbg]_vars

\* ------------------------------------------------------------ program runs
\* the number of clock() calls of a run
MaxTicks == 6

\* the byte values the runs draw registers and operands from
SampleBytes == {0, 1, 15, 80, 127, 128, 160, 240, 255}

\* the start state of a run: the constructed CPU, to which the caller has
\* assigned code at base, data cells elsewhere in RAM and pc, the first
\* byte of the code (no method of the CPU completes an assignment of pc
\* outside the instructions)
Loaded(base, code, data) ==
    [SY6502 EXCEPT !.cpu_ram = Image(base, code) @@ data, !.pc = base]

\* PHA; PLA at $0400
StackRuns ==
    { [Loaded(1024, <<72, 104>>, << >>) EXCEPT !.a = v, !.stkp = sp] :
        v \in SampleBytes, sp \in {0, 1, 253, 255} }

\* the accumulator a run starts with is the Python int a test assigns or
\* the np.uint8 an earlier load left
StartKinds == {"int", "uint8"}

\* ADC #m; CLC or SEC; SBC #m at $0400, and SBC #m alone
ArithRuns ==
    { [Loaded(1024, <<105, m, fl, 233, m>>, << >>)
          EXCEPT !.a = v, !.ty.a = k, !.flags.C = c] :
        v \in SampleBytes, m \in SampleBytes, c \in StartBit, fl \in {24, 56},
        k \in StartKinds }
    \cup
    { [Loaded(1024, <<233, m>>, << >>) EXCEPT !.a = v, !.flags.C = c] :
        v \in SampleBytes, m \in SampleBytes, c \in StartBit }

\* BNE, BEQ or BCC with offset +4 or -4, at $0400 and at $00FD
BranchRuns ==
    { [Loaded(base, <<opc, off>>, << >>) EXCEPT !.flags.Z = z, !.flags.C = c] :
        opc \in {208, 240, 144}, base \in {1024, 253}, off \in {4, 252},
        z \in StartBit, c \in StartBit }

\* JMP ($02FF) and JMP ($0280) at $0400, with $12 at $0200, $56 after the
\* pointer and $34 or $FF at the pointer
JmpRuns ==
    { Loaded(1024, <<108, lo, 2>>,
             (512 :> 18) @@ (512 + lo :> v) @@ (512 + lo + 1 :> 86)) :
        lo \in {255, 128}, v \in {52, 255} }

\* the opcodes whose table entry carries the placeholder mnemonic
IllegalOpcodes == { i \in 0..255 : Instruction(i).name = "???" }

\* one illegal opcode at $0400
IllegalRuns ==
    { [Loaded(1024, <<opc>>, << >>) EXCEPT !.a = v, !.flags.C = c] :
        opc \in IllegalOpcodes, v \in {0, 80}, c \in StartBit }

\* LDA #v, ADC #v, SBC #v or CMP #v with a = $50 and C clear, then a
\* branch with offset +4: BPL, BMI, BVC, BVS, BCC, BCS, BNE or BEQ
FlagBranchRuns ==
    { [Loaded(1024, <<op, v, br, 4>>, << >>) EXCEPT !.a = 80, !.ty.a = k] :
        op \in {169, 105, 233, 201}, v \in {0, 80, 128, 240},
        br \in {16, 48, 80, 112, 144, 176, 208, 240}, k \in StartKinds }

RunCpu ==
    StackRuns \cup ArithRuns \cup BranchRuns \cup JmpRuns \cup IllegalRuns
    \cup FlagBranchRuns

InitRun ==
    /\ cpu \in RunCpu
    /\ ppu \in {Visual2C02(w) : w \in ColorWidths}
    /\ clock_counter = 0
    /\ exc = Bus6502(ppu.dp_colors).exc
    /\ call = "init"
    /\ pre = cpu
    /\ ncalls = 0
    /\ start = cpu
    /\ io = NoIO
    /\ out = NoOut
    /\ cart = NoCartridge

\* cpu.clock() in a run, which ends at the first exception
Tick ==
    /\ ncalls < MaxTicks
    /\ Running
    /\ \E o \in StoreOutcomes : \E s \in {clock(Enter(cpu, o))} :
          /\ cpu' = Leave(s)
          /\ exc' = s.err
    /\ call' = "clock"
    /\ pre' = cpu
    /\ ncalls' = ncalls + 1
    /\ UNCHANGED <<ppu, clock_counter, start, io, out, cart>>

SpecRun == InitRun /\ [][Tick]_vars

\* ------------------------------------------------------------ flag object
InitFlags ==
    /\ cpu = SY6502
    /\ ppu \in {Visual2C02(w) : w \in ColorWidths}
    /\ clock_counter = 0
    /\ exc = Bus6502(ppu.dp_colors).exc
    /\ call = "init"
    /\ pre = cpu
    /\ ncalls = 0
    /\ start = cpu
    /\ io = NoIO
    /\ out = NoOut
    /\ cart = NoCartridge

\* cpu.flags.apply(b), b a Python int or a byte of the work RAM; the call
\* raises nothing
FlagsApply ==
    /\ ncalls < MaxCalls
    /\ Running
    /\ \E b \in 0..255, k \in {"int", "uint8"} :
          /\ cpu' = [cpu EXCEPT !.flags = apply(cpu.flags, b, k)]
          /\ io' = [NoIO EXCEPT !.byte = b]
    /\ exc' = NoErr
    /\ call' = "apply"
    /\ ncalls' = ncalls + 1
    /\ UNCHANGED <<ppu, clock_counter, pre, start, out, cart>>

\* cpu.flags.extract(): the value returned and the exception of its shifts
FlagsExtract ==
    /\ ncalls < MaxCalls
    /\ Running
    /\ \E e \in {extract(cpu.flags)} :
          /\ io' = [io EXCEPT !.ret = e]
          /\ exc' = e.err
    /\ call' = "extract"
    /\ ncalls' = ncalls + 1
    /\ UNCHANGED <<cpu, ppu, clock_counter, pre, start, out, cart>>

NextFlags == FlagsApply \/ FlagsExtract

SpecFlags == InitFlags /\ [][NextFlags]_vars

\* ------------------------------------------------------------ bus clock
\* the number of nes.clock() calls of a run
MaxBusTicks == 260

\* JMP $0100 at $0100: a program that runs for ever
LoopCpu == Loaded(CodeBase, <<76, 0, 1>>, << >>)

InitBus ==
    /\ cpu \in StartCpu \cup {LoopCpu}
    /\ ppu \in {Visual2C02(w) : w \in ColorWidths}
    /\ clock_counter = 0
    /\ exc = Bus6502(ppu.dp_colors).exc
    /\ call = "init"
    /\ pre = cpu
    /\ ncalls = 0
    /\ start = cpu
    /\ io = NoIO
    /\ out = NoOut
    /\ cart = NoCartridge

\* nes.clock() in a run, which ends at the first exception
BusTick ==
    /\ ncalls < MaxBusTicks
    /\ Running
    /\ \E o \in StoreOutcomes : \E m \in {System} : \E n \in {bus_clock(m, o)} :
          /\ cpu' = n.cpu
          /\ ppu' = n.ppu
          /\ clock_counter' = n.clock_counter
          /\ exc' = n.exc
    /\ call' = "bus_clock"
    /\ pre' = cpu
    /\ ncalls' = ncalls + 1
    /\ UNCHANGED <<start, io, out, cart>>

SpecBus == InitBus /\ [][BusTick]_vars

\* ------------------------------------------------------------ multiply program
\* the number of calls of a run of the multiply program
MaxProgTicks == 110

\* start states with the memory debug_cpu_program writes and pc assigned to
\* the program by the caller
ProgCpu ==
    { [Loaded(CodeBase, MultiplyProgram, And(INIT_ADDR + 1, RAM_MASK) :> 1)
          EXCEPT !.stkp = sp, !.flags.C = fc] :
        sp \in StartStkp, fc \in StartBit }

InitProg ==
    /\ cpu \in {SY6502} \cup ProgCpu
    /\ ppu \in {Visual2C02(w) : w \in ColorWidths}
    /\ clock_counter = 0
    /\ exc = Bus6502(ppu.dp_colors).exc
    /\ call = "init"
    /\ pre = cpu
    /\ ncalls = 0
    /\ start = cpu
    /\ io = NoIO
    /\ out = NoOut
    /\ cart = NoCartridge

\* Debugger.debug_cpu_program() on the constructed system
DebugCpuProgram ==
    /\ call = "init"
    /\ \E o \in StoreOutcomes : \E m \in {System} :
          \E n \in {debug_cpu_program(m, o)} :
             /\ cpu' = n.cpu
             /\ ppu' = n.ppu
             /\ clock_counter' = n.clock_counter
             /\ exc' = n.exc
    /\ call' = "debug_cpu_program"
    /\ pre' = cpu
    /\ ncalls' = ncalls + 1
    /\ UNCHANGED <<start, io, out, cart>>

\* cpu.clock() once the program is in memory; a run ends at the first
\* exception
ProgTick ==
    /\ ncalls < MaxProgTicks
    /\ Running
    /\ start \in ProgCpu \/ call # "init"
    /\ \E o \in StoreOutcomes : \E s \in {clock(Enter(cpu, o))} :
          /\ cpu' = Leave(s)
          /\ exc' = s.err
    /\ call' = "clock"
    /\ pre' = cpu
    /\ ncalls' = ncalls + 1
    /\ UNCHANGED <<ppu, clock_counter, start, io, out, cart>>

NextProg == DebugCpuProgram \/ ProgTick

SpecProg == InitProg /\ [][NextProg]_vars

\* ------------------------------------------------------------ disassembler calls
\* the (start, end) pairs given to disassemble: the window of the debugger
\* around pc = $0100, windows that fit in the program, a negative start,
\* an empty window, and windows at the end of the mapped range
DisArgs ==
    { <<CodeBase - 14, CodeBase + 24>>, <<CodeBase, CodeBase + 6>>,
      <<-8, 2>>, <<5, 4>>, <<8188, 8191>>, <<8190, 8193>> }

\* a constructed CPU with a program at $0100 and pc unassigned, at the
\* program or one byte into it
DisCpu ==
    { [SY6502 EXCEPT !.cpu_ram = Image(CodeBase, code), !.pc = p] :
        code \in Programs, p \in {NoAttr, CodeBase, CodeBase + 1} }

InitDis ==
    /\ cpu \in DisCpu
    /\ ppu \in {Visual2C02(w) : w \in ColorWidths}
    /\ clock_counter = 0
    /\ exc = Bus6502(ppu.dp_colors).exc
    /\ call = "init"
    /\ pre = cpu
    /\ ncalls = 0
    /\ start = cpu
    /\ io = NoIO
    /\ out = NoOut
    /\ cart = NoCartridge

\* cpu.disassemble(start, end); out keeps the results of the last two
\* calls, each with its number among the calls made
Disassemble ==
    /\ ncalls < MaxCalls
    /\ Running
    /\ \E args \in DisArgs : \E r \in {disassemble(cpu, args[1], args[2])} :
          /\ cpu' = r.cpu
          /\ exc' = r.err
          /\ out' = <<[args |-> args, before |-> cpu, map |-> r.map, err |-> r.err,
                        n |-> ncalls + 1]>>
                    \o (IF out = << >> THEN << >> ELSE <<out[1]>>)
    /\ call' = "disassemble"
    /\ pre' = cpu
    /\ ncalls' = ncalls + 1
    /\ UNCHANGED <<ppu, clock_counter, start, io, cart>>

\* cpu.clock() between two calls of the disassembler
DisTick ==
    /\ ncalls < MaxCalls
    /\ Running
    /\ \E o \in StoreOutcomes : \E s \in {clock(Enter(cpu, o))} :
          /\ cpu' = Leave(s)
          /\ exc' = s.err
    /\ call' = "clock"
    /\ pre' = cpu
    /\ ncalls' = ncalls + 1
    /\ UNCHANGED <<ppu, clock_counter, start, io, out, cart>>

NextDis == Disassemble \/ DisTick

SpecDis == InitDis /\ [][NextDis]_vars

\* ------------------------------------------------------------ memory interface
\* the number of reads and writes of a run
MaxMemCalls == 2

\* addresses in the RAM and its mirrors, at the PPU registers and above
MemAddrs == {5, 2047, 2053, 8191, 8192, 16383, 16384, 65532}

\* the data written: bytes, and an integer that does not fit a byte
MemData == {0, 255, 300}

\* a constructed CPU, with RAM all zero or with two nonzero cells
MemCpu == { SY6502, [SY6502 EXCEPT !.cpu_ram = (5 :> 17) @@ (2047 :> 34)] }

InitMem ==
    /\ cpu \in MemCpu
    /\ ppu \in {Visual2C02(w) : w \in ColorWidths}
    /\ clock_counter = 0
    /\ exc = Bus6502(ppu.dp_colors).exc
    /\ call = "init"
    /\ pre = cpu
    /\ ncalls = 0
    /\ start = cpu
    /\ io = NoIO
    /\ out = NoOut
    /\ cart = NoCartridge

\* the bookkeeping of a read or write op of addr with data that returned val
MemCalled(op, addr, data, val) ==
    /\ ncalls < MaxMemCalls
    /\ Running
    /\ call' = op
    /\ pre' = cpu
    /\ ncalls' = ncalls + 1
    /\ out' = <<[op |-> op, addr |-> addr, data |-> data, val |-> val]>>
              \o (IF out = << >> THEN << >> ELSE <<out[1]>>)
    /\ UNCHANGED <<ppu, clock_counter, start, io, cart>>

\* cpu.cpu_read(addr)
MemCpuRead ==
    \E addr \in MemAddrs : \E v \in {cpu_read(cpu, addr)} :
        /\ MemCalled("cpu_read", addr, None, v)
        /\ cpu' = cpu
        /\ exc' = IF v = Unbound THEN ULE ELSE NoErr

\* cpu.cpu_write(addr, data)
MemCpuWrite ==
    \E addr \in MemAddrs : \E data \in MemData : \E o \in StoreOutcomes :
        \E s \in {cpu_write(Enter(cpu, o), addr, data, "int")} :
            /\ MemCalled("cpu_write", addr, data, None)
            /\ cpu' = Leave(s)
            /\ exc' = s.err

\* nes.cpu_read(addr)
MemBusRead ==
    \E addr \in MemAddrs : \E v \in {bus_cpu_read(System, addr)} :
        /\ MemCalled("bus_read", addr, None, v)
        /\ cpu' = cpu
        /\ exc' = NoErr

\* nes.cpu_write(addr, data)
MemBusWrite ==
    \E addr \in MemAddrs : \E data \in MemData : \E o \in StoreOutcomes :
        \E n \in {bus_cpu_write(System, addr, data, o)} :
            /\ MemCalled("bus_write", addr, data, None)
            /\ cpu' = n.cpu
            /\ exc' = n.exc

NextMem == MemCpuRead \/ MemCpuWrite \/ MemBusRead \/ MemBusWrite

SpecMem == InitMem /\ [][NextMem]_vars

\* ------------------------------------------------------------ cartridge reads
\* CPU addresses below the cartridge range, at its start, at the start of
\* the second 16 KiB and at its end
CartAddrs == {0, 16384, 32767, 32768, 32769, 49152, 49153, 65535}

\* the flag bytes 6 and the PRG chunk counts of the files loaded
CartFlags6 == {0, 4, 16, 20, 32, 48}
CartChunks == {1, 2}

\* the bytes written to the cartridge
CartData == {0, 85}

\* a cartridge of one or two PRG banks whose mapper and program memory a
\* test assigned, with nonzero bytes at offsets 0, 1, $3FFF and $4000
TestCarts ==
    { [mapper |-> Mapper000(b), n_prgbanks |-> b,
       prg_memory |-> Memory(b * 16384,
                             [i \in {0, 1, 16383} \cup (IF b > 1 THEN {16384} ELSE {})
                                 |-> 7 + (i % 5)])] : b \in CartChunks }

InitCart ==
    /\ cpu = SY6502
    /\ ppu \in {Visual2C02(w) : w \in ColorWidths}
    /\ clock_counter = 0
    /\ exc = Bus6502(ppu.dp_colors).exc
    /\ call = "init"
    /\ pre = cpu
    /\ ncalls = 0
    /\ start = cpu
    /\ io = NoIO
    /\ out = NoOut
    /\ cart \in {NoCartridge} \cup TestCarts

\* the bookkeeping of a cartridge call op of addr that returned val
CartCalled(op, addr, val) ==
    /\ ncalls < MaxCalls
    /\ Running
    /\ call' = op
    /\ ncalls' = ncalls + 1
    /\ out' = <<[op |-> op, addr |-> addr, val |-> val]>>
    /\ UNCHANGED <<cpu, ppu, clock_counter, pre, start, io>>

\* the bytes that follow the header in the files loaded: a program ROM of
\* zeros, one that holds LDA #1 and the vector $8000 at its end, and a file
\* cut short after 100 bytes
CartFiles(n) ==
    { Memory(n * 16384, << >>),
      Memory(n * 16384, (0 :> 169) @@ (1 :> 1) @@ (n * 16384 - 1 :> 128)),
      Memory(100, << >>) }

\* cart.load_cart(cart_path) for a file with the given flags, chunk count
\* and bytes, as __init__ calls it and as a later call on the object
LoadCart ==
    /\ \E f \in CartFlags6 : \E n \in CartChunks : \E file \in CartFiles(n) :
          \E r \in {load_cart(cart, f, 0, n, file)} :
             /\ CartCalled("load_cart", f, None)
             /\ cart' = r.cart
             /\ exc' = r.err

\* cart.mapper.cpu_map_read(addr)
CartMapRead ==
    \E addr \in CartAddrs :
        /\ CartCalled("cpu_map_read", addr,
                      IF cart.mapper.kind = "None" THEN None
                      ELSE cpu_map_read(cart.mapper.prg_banks, addr))
        /\ cart' = cart
        /\ exc' = IF cart.mapper.kind = "None" THEN ATE ELSE NoErr

\* cart.cpu_read(addr)
CartCpuRead ==
    \E addr \in CartAddrs : \E r \in {cart_cpu_read(cart, addr)} :
        /\ CartCalled("cart_cpu_read", addr, r.val)
        /\ cart' = cart
        /\ exc' = r.err

\* cart.cpu_write(addr, data)
CartCpuWrite ==
    \E addr \in CartAddrs : \E data \in CartData : \E r \in {cart_cpu_write(cart, addr, data)} :
        /\ CartCalled("cart_cpu_write", addr, r.val)
        /\ cart' = r.cart
        /\ exc' = r.err

NextCart == LoadCart \/ CartMapRead \/ CartCpuRead \/ CartCpuWrite

SpecCart == InitCart /\ [][NextCart]_vars

\* ------------------------------------------------------------ operations
\* Runs of one or two instructions that test the shifts, the indexed and
\* zero-page addressing modes, subroutine calls, the flag pushes and BRK.
\* the number of clock() calls of such a run
MaxOpsTicks == 7

\* ASL, LSR, ROL or ROR of the accumulator at $0400 with $40 at $0000, and
\* of the byte at $0200 (ABS mode)
ShiftRuns ==
    { [Loaded(1024, <<opc>>, (0 :> 64)) EXCEPT !.a = v, !.flags.C = c] :
        opc \in {10, 74, 42, 106}, v \in {1, 129}, c \in StartBit }
    \cup
    { [Loaded(1024, <<opc, 0, 2>>, (512 :> m)) EXCEPT !.a = 64, !.flags.C = c] :
        opc \in {14, 78, 46, 110}, m \in {1, 129}, c \in StartBit }

\* the opcodes of the table with the addressing mode md
OpcodesOf(md) == { i \in 0..255 : Instruction(i).addrmode = md }

\* the data of the indexed runs: $77 at $0000, $55 at $02FF, $66 at $0300
\* and the pointer $02F0 at $0020
IndexData == (0 :> 119) @@ (767 :> 85) @@ (768 :> 102) @@ (32 :> 240) @@ (33 :> 2)

\* every ABX and ABY instruction on $02F0 and every IZY instruction on
\* ($20), with the index $0F (same page) or $10 (next page), and the
\* immediate loads, compares and logic operations
IndexRuns ==
    { [Loaded(1024, <<opc, 240, 2>>, IndexData) EXCEPT !.a = 64, !.x = i, !.y = i] :
        opc \in OpcodesOf("ABX") \cup OpcodesOf("ABY"), i \in {15, 16} }
    \cup
    { [Loaded(1024, <<opc, 32>>, IndexData) EXCEPT !.a = 64, !.y = i] :
        opc \in OpcodesOf("IZY"), i \in {15, 16} }
    \cup
    { [Loaded(1024, <<opc, 80>>, << >>) EXCEPT !.a = 64] :
        opc \in {9, 41, 73, 160, 162, 169, 192, 201, 224} }

\* every ZP0 instruction on $10 and on $FF, with $55 at $0010
ZeroPageRuns ==
    { [Loaded(1024, <<opc, t>>, (16 :> 85)) EXCEPT !.a = 64] :
        opc \in OpcodesOf("ZP0"), t \in {16, 255} }

\* JSR $0600 at $0400 or at $04FD, with RTS at $0600
SubRuns ==
    { [Loaded(base, <<32, 0, 6>>, (1536 :> 96)) EXCEPT !.stkp = sp] :
        base \in {1024, 1277}, sp \in {0, 1, 253, 255} }

\* PHP; SEC, CLC, SED or CLV; PLP at $0400
FlagRuns ==
    { [Loaded(1024, <<8, fl, 40>>, << >>) EXCEPT !.stkp = 253, !.flags.C = c,
                                                 !.flags.D = d, !.flags.V = v] :
        fl \in {56, 24, 248, 184}, c \in StartBit, d \in StartBit, v \in StartBit }

\* BRK at $0400 followed by NOP
BrkRuns ==
    { [Loaded(1024, <<0, 234, 234>>, << >>) EXCEPT !.stkp = sp, !.flags.C = c,
                                                   !.flags.I = i] :
        sp \in {2, 253}, c \in StartBit, i \in StartBit }

OpsCpu ==
    ShiftRuns \cup IndexRuns \cup ZeroPageRuns \cup SubRuns \cup FlagRuns
    \cup BrkRuns

InitOps ==
    /\ cpu \in OpsCpu
    /\ ppu \in {Visual2C02(w) : w \in ColorWidths}
    /\ clock_counter = 0
    /\ exc = Bus6502(ppu.dp_colors).exc
    /\ call = "init"
    /\ pre = cpu
    /\ ncalls = 0
    /\ start = cpu
    /\ io = NoIO
    /\ out = NoOut
    /\ cart = NoCartridge

\* cpu.clock() in such a run, which ends at the first exception
OpsTick ==
    /\ ncalls < MaxOpsTicks
    /\ Running
    /\ \E o \in StoreOutcomes : \E s \in {clock(Enter(cpu, o))} :
          /\ cpu' = Leave(s)
          /\ exc' = s.err
    /\ call' = "clock"
    /\ pre' = cpu
    /\ ncalls' = ncalls + 1
    /\ UNCHANGED <<ppu, clock_counter, start, io, out, cart>>

SpecOps == InitOps /\ [][OpsTick]_vars

\* ------------------------------------------------------------ interrupts
\* Runs in which nmi() and irq() are called between clock() calls.
\* the number of calls of such a run
MaxIntCalls == 4

\* NOP; NOP; NOP at $0400 and RTI at $0000, the address an unmapped
\* vector would give
IntRuns ==
    { [Loaded(1024, <<234, 234, 234>>, (0 :> 64)) EXCEPT !.stkp = sp, !.flags.C = c,
                                                         !.flags.I = i] :
        sp \in {2, 253}, c \in StartBit, i \in StartBit }

\* RTI at $0000 with the stack as an interrupt taken at $0400 with stkp =
\* $FD leaves it: the flag byte p at $01FB and $0400 above it
RtiRuns ==
    { [Loaded(0, <<64>>, (507 :> p) @@ (509 :> 4)) EXCEPT !.stkp = 250, !.flags.I = 1,
                                                          !.flags.C = c] :
        p \in {36, 37, 229}, c \in StartBit }

IntCpu == IntRuns \cup RtiRuns

InitInt ==
    /\ cpu \in IntCpu
    /\ ppu \in {Visual2C02(w) : w \in ColorWidths}
    /\ clock_counter = 0
    /\ exc = Bus6502(ppu.dp_colors).exc
    /\ call = "init"
    /\ pre = cpu
    /\ ncalls = 0
    /\ start = cpu
    /\ io = NoIO
    /\ out = NoOut
    /\ cart = NoCartridge

\* the bookkeeping of a call named nm whose result is s; a run ends at the
\* first exception
IntCalled(nm, s) ==
    /\ cpu' = Leave(s)
    /\ exc' = s.err
    /\ call' = nm
    /\ pre' = cpu
    /\ ncalls' = ncalls + 1
    /\ UNCHANGED <<ppu, clock_counter, start, io, cart>>

\* cpu.clock()
IntTick ==
    /\ ncalls < MaxIntCalls /\ Running
    /\ \E o \in StoreOutcomes : \E s \in {clock(Enter(cpu, o))} : IntCalled("clock", s)
    /\ out' = out

\* cpu.nmi(); out keeps the CPU the request found and the number of the call
IntNmi ==
    /\ ncalls < MaxIntCalls /\ Running
    /\ \E o \in StoreOutcomes : \E s \in {nmi(Enter(cpu, o))} : IntCalled("nmi", s)
    /\ out' = <<[op |-> "nmi", before |-> cpu, at |-> ncalls + 1]>>

\* cpu.irq()
IntIrq ==
    /\ ncalls < MaxIntCalls /\ Running
    /\ \E o \in StoreOutcomes : \E s \in {irq(Enter(cpu, o))} : IntCalled("irq", s)
    /\ out' = <<[op |-> "irq", before |-> cpu, at |-> ncalls + 1]>>

NextInt == IntTick \/ IntNmi \/ IntIrq

SpecInt == InitInt /\ [][NextInt]_vars

\* ------------------------------------------------------------ claims
\* what the specification expects of a read: the RAM byte, or 0 where no
\* device is mapped
ReadOrZero(ram, addr) == IF Mapped(addr) THEN RamAt(ram, And(addr, RAM_MASK)) ELSE 0

\* the 16-bit little-endian value stored at a vector
VectorAt(ram, addr) == Or(ReadOrZero(ram, addr + 1) * 256, ReadOrZero(ram, addr))

\* the flag byte with C, Z, I, D, B, U, V, N in bits 0..7
PackedByte(f) ==
    Bool(f.C # 0) + 2 * Bool(f.Z # 0) + 4 * Bool(f.I # 0) + 8 * Bool(f.D # 0)
    + 16 * Bool(f.B # 0) + 32 * Bool(f.U # 0) + 64 * Bool(f.V # 0)
    + 128 * Bool(f.N # 0)

BranchOps == {"BCC", "BCS", "BEQ", "BNE", "BMI", "BPL", "BVC", "BVS"}

\* the opcode byte at the pc of the CPU c, and its table entry
OpcodeAt(c) == RamAt(c.cpu_ram, And(c.pc, RAM_MASK))

\* the flags the addressing mode and the opcode function of the
\* instruction at the pc of c return
ModeFlag(c) ==
    AddrMode(Instruction(OpcodeAt(c)).addrmode,
             [Enter(c, "wrap") EXCEPT !.pc = c.pc + 1]).ret

OperateFlag(c) ==
    Operate(Instruction(OpcodeAt(c)).opcode,
            AddrMode(Instruction(OpcodeAt(c)).addrmode,
                     [Enter(c, "wrap") EXCEPT !.pc = c.pc + 1])).ret

\* C1: a clock() call made with cycle = 0 on a non-branch instruction
\* leaves cycle = base_cycles + (page_cross_flag AND eligibility_flag) - 1,
\* and a clock() call made with cycle > 0 only decrements cycle by 1 and
\* fetches nothing, so that complete() is next true after exactly
\* base_cycles + (page_cross_flag AND eligibility_flag) calls.
C1_InstructionTiming ==
    call = "clock" =>
        IF pre.cycle = 0
        THEN (Mapped(pre.pc)
              /\ Instruction(OpcodeAt(pre)).opcode \notin BranchOps)
             => cpu.cycle = Instruction(OpcodeAt(pre)).cycle
                            + And(ModeFlag(pre), OperateFlag(pre)) - 1
        ELSE cpu = [pre EXCEPT !.cycle = pre.cycle - 1]

\* C2: after any clock(), reset(), irq() or nmi() call, a, x, y and stkp
\* are in 0..255 and pc and addr_abs are in 0..0xFFFF.
C2_RegisterWidths ==
    call \in {"clock", "reset", "irq", "nmi"} =>
        /\ cpu.a \in 0..255
        /\ cpu.x \in 0..255
        /\ cpu.y \in 0..255
        /\ cpu.stkp \in 0..255
        /\ cpu.pc = NoAttr \/ cpu.pc \in 0..65535
        /\ cpu.addr_abs \in 0..65535

\* C3: at every instruction boundary (cycle = 0) the U flag is 1,
\* including the boundary after construction and the one after PHP.
C3_UnusedFlagAtBoundary == cpu.cycle = 0 => cpu.flags.U = 1

\* C4: the debugger calls cpu.irq(), cpu.nmi() and reset() only when the
\* CPU is on an instruction boundary (complete() is true).
C4_InterruptAtBoundary ==
    call \in {"key_I", "key_N", "key_R"} => complete(pre)

\* C5: irq() with I = 0 pushes pc high, pc low and the flag byte (B=0,
\* U=1, I=1), decreases stkp by 3, leaves I set, loads pc from
\* 0xFFFE/0xFFFF and sets cycle to 7.
C5_IrqAccepted ==
    (call = "irq" /\ pre.flags.I = 0 /\ pre.pc # NoAttr /\ pre.stkp >= 3) =>
        /\ cpu.stkp = pre.stkp - 3
        /\ RamAt(cpu.cpu_ram, STACK_ADDR + pre.stkp) = And(pre.pc \div 256, 255)
        /\ RamAt(cpu.cpu_ram, STACK_ADDR + pre.stkp - 1) = And(pre.pc, 255)
        /\ RamAt(cpu.cpu_ram, STACK_ADDR + pre.stkp - 2)
               = PackedByte([pre.flags EXCEPT !.B = 0, !.U = 1, !.I = 1])
        /\ cpu.flags.I = 1
        /\ cpu.pc = VectorAt(pre.cpu_ram, INTR_ADDR)
        /\ cpu.cycle = INTR_TIME

\* C6: irq() with I = 1 changes nothing: every register, flag, latch, the
\* cycle count and all of RAM are as before the call.
C6_IrqMaskedNoOp ==
    (call = "irq" /\ pre.flags.I = 1) => cpu = pre

\* an irq() call was made with I = 1 on a CPU that has a pc and a program
C6_Witness ==
    /\ call = "irq"
    /\ pre.flags.I = 1
    /\ pre.pc # NoAttr
    /\ pre.cpu_ram # << >>

\* C7: nmi() is not masked: for either value of I it pushes pc high, pc
\* low and the packed flag byte (B=0, U=1, I=1), decreases stkp by 3,
\* loads pc from 0xFFFA/0xFFFB and sets cycle to 8.
C7_NmiDelivered ==
    (call = "nmi" /\ pre.pc # NoAttr /\ pre.stkp >= 3) =>
        /\ cpu.stkp = pre.stkp - 3
        /\ RamAt(cpu.cpu_ram, STACK_ADDR + pre.stkp) = And(pre.pc \div 256, 255)
        /\ RamAt(cpu.cpu_ram, STACK_ADDR + pre.stkp - 1) = And(pre.pc, 255)
        /\ RamAt(cpu.cpu_ram, STACK_ADDR + pre.stkp - 2)
               = PackedByte([pre.flags EXCEPT !.B = 0, !.U = 1, !.I = 1])
        /\ cpu.pc = VectorAt(pre.cpu_ram, NMI_ADDR)
        /\ cpu.cycle = NMI_TIME

\* C8: after reset(), a = x = y = 0, stkp = 0xFD, pc is the vector at
\* 0xFFFC/0xFFFD, addr_abs, addr_rel and fetched are 0 and cycle = 8.
C8_ResetRegisters ==
    call = "reset" =>
        /\ cpu.a = 0 /\ cpu.x = 0 /\ cpu.y = 0
        /\ cpu.stkp = 253
        /\ cpu.pc = VectorAt(pre.cpu_ram, INIT_ADDR)
        /\ cpu.addr_abs = 0 /\ cpu.addr_rel = 0 /\ cpu.fetched = 0
        /\ cpu.cycle = RESET_TIME

\* C9: after reset(), U = 1 and I = 1 and C, Z, D, B, V, N are 0.
C9_ResetFlags ==
    call = "reset" =>
        \A f \in FlagNames : cpu.flags[f] = IF f \in {"U", "I"} THEN 1 ELSE 0

Fetched(opc) == call = "clock" /\ pre.cycle = 0 /\ OpcodeAt(pre) = opc

\* C11: the stack pointer wraps modulo 256.  A PHA leaves stkp one less
\* modulo 256 with a written at 0x0100 + the old stkp; a PLA leaves stkp
\* one more modulo 256 and loads a from 0x0100 + the new stkp; both
\* addresses are in 0x0100..0x01FF.
C11_StackWrap ==
    /\ Fetched(72) =>
          /\ cpu.stkp = (pre.stkp + 255) % 256
          /\ RamAt(cpu.cpu_ram, STACK_ADDR + pre.stkp) = pre.a
    /\ Fetched(104) =>
          /\ cpu.stkp = (pre.stkp + 1) % 256
          /\ cpu.a = RamAt(pre.cpu_ram, STACK_ADDR + cpu.stkp)

\* C12: PHA followed by PLA yields the accumulator and the stack pointer
\* the PHA started with.
C12_StackRoundTrip ==
    (Fetched(104) /\ OpcodeAt(start) = 72 /\ pre.pc = start.pc + 1) =>
        /\ cpu.a = start.a
        /\ cpu.stkp = start.stkp

\* a PLA has popped the nonzero byte that the PHA before it pushed with
\* the stack pointer at 0
C12_Witness ==
    /\ Fetched(104) /\ OpcodeAt(start) = 72 /\ pre.pc = start.pc + 1
    /\ start.stkp = 0 /\ start.a = 160
    /\ exc = NoErr

\* the integer mant * 2^shift that extract() returned equals the byte b
\* (with mant >= 1 and shift >= 8 the integer is above 255)
ReturnedByte(e, b) ==
    IF e.mant = 0 THEN b = 0
    ELSE e.shift < 8 /\ e.mant * 2^e.shift = b

\* C13: extract() is the inverse of apply(): after apply(b), for b in
\* 0..255, extract() returns b, the byte with C, Z, I, D, B, U, V, N in
\* bit 0 to bit 7.
C13_FlagPacking ==
    (call = "extract" /\ io.byte \in 0..255) => ReturnedByte(io.ret, io.byte)

\* the operand byte of the two-byte instruction at the pc of c
OperandAt(c) == RamAt(c.cpu_ram, And(c.pc + 1, RAM_MASK))

\* bit 7 of n, as 0 or 1
Bit7(n) == Bool(And(n, 128) # 0)

\* what the specification expects of an addition of a, m and the carry c:
\* the accumulator and the flags C, Z, N, V, each 0 or 1
Added(a, m, c) ==
    LET t == a + m + c
    IN  [a |-> t % 256,
         C |-> Bool(t > 255),
         Z |-> Bool(t % 256 = 0),
         N |-> Bit7(t),
         V |-> Bit7(And(Xor(a, t), Not(Xor(a, m))))]

\* the accumulator and the flags C, Z, N, V of the CPU c
Sum(c) == [a |-> c.a, C |-> c.flags.C, Z |-> c.flags.Z, N |-> c.flags.N,
           V |-> c.flags.V]

\* C14: ADC #m with a, m in 0..255 and carry c leaves, with t = a + m + c,
\* a = t mod 256, C = 1 iff t > 0xFF, Z = 1 iff t mod 256 = 0, N = bit 7
\* of t and V = bit 7 of (a XOR t) AND NOT (a XOR m).
C14_Adc ==
    Fetched(105) => Sum(cpu) = Added(pre.a, OperandAt(pre), pre.flags.C)

\* C15: SBC #m with a, m in 0..255 and carry c behaves as the addition of
\* a, m XOR 0xFF and c: a = t mod 256, C = 1 iff t > 0xFF, and Z, N, V as
\* for ADC.
C15_Sbc ==
    Fetched(233) => Sum(cpu) = Added(pre.a, Xor(OperandAt(pre), 255), pre.flags.C)

\* the SBC #m of a run that began with ADC #m, the same m, has executed
\* after one instruction in between
AdcThenSbc ==
    /\ Fetched(233)
    /\ OpcodeAt(start) = 105
    /\ pre.pc = start.pc + 3
    /\ OperandAt(pre) = OperandAt(start)

\* C16 as stated: ADC #m with carry c, then SBC #m with the carry set
\* again to c, leaves the accumulator equal to the original a.
C16_AdcSbcSameCarry ==
    (AdcThenSbc /\ pre.flags.C = start.flags.C) => cpu.a = start.a

\* C16 amended: ADC #m with carry c, then SBC #m with the carry set to
\* the complement 1 - c, leaves the accumulator equal to the original a.
C16_AdcSbcRoundTrip ==
    (AdcThenSbc /\ pre.flags.C = 1 - start.flags.C) => cpu.a = start.a

\* $50 + $F0 + 1 and then - $F0 with the carry cleared has come back to $50
C16_Witness ==
    /\ AdcThenSbc
    /\ start.a = 80 /\ OperandAt(start) = 240 /\ start.flags.C = 1
    /\ pre.a = 65 /\ pre.flags.C = 0
    /\ cpu.a = 80

\* the branch opcodes of the runs and the flag test of each: BNE, BEQ, BCC
BranchTaken(c) ==
    CASE OpcodeAt(c) = 208 -> c.flags.Z = 0
      [] OpcodeAt(c) = 240 -> c.flags.Z = 1
      [] OpcodeAt(c) = 144 -> c.flags.C = 0
      [] OTHER -> FALSE

\* the operand byte as a signed offset
Signed(v) == IF v >= 128 THEN v - 256 ELSE v

\* the cycles a branch at the pc of c costs: base, one more when taken,
\* and one more again when the target is on another page than the pc
\* after the operand
BranchCost(c) ==
    LET next == c.pc + 2
        target == (next + Signed(OperandAt(c))) % 65536
    IN  Instruction(OpcodeAt(c)).cycle
        + (IF BranchTaken(c)
           THEN 1 + Bool(target \div 256 # next \div 256)
           ELSE 0)

\* C17: the clock() call that fetches a branch initialises the cycle
\* count to base + 1 when the branch is taken within the page, to
\* base + 2 when it is taken across a page, and to base when it is not
\* taken; the call then decrements it.
C17_BranchCycles ==
    (call = "clock" /\ pre.cycle = 0 /\ OpcodeAt(pre) \in {208, 240, 144}) =>
        cpu.cycle = BranchCost(pre) - 1

\* the low byte and the high byte of the pointer of the JMP (P) at the pc
\* of c
PointerAt(c) ==
    RamAt(c.cpu_ram, And(c.pc + 1, RAM_MASK))
    + 256 * RamAt(c.cpu_ram, And(c.pc + 2, RAM_MASK))

\* C18: JMP (P) sets pc = (read(P AND 0xFF00) << 8) | read(P) when the
\* low byte of P is 0xFF, and pc = (read(P + 1) << 8) | read(P) otherwise.
C18_JmpIndirect ==
    Fetched(108) =>
        LET P == PointerAt(pre)
            high == IF P % 256 = 255 THEN And(P, 65280) ELSE P + 1
        IN  cpu.pc = 256 * ReadOrZero(pre.cpu_ram, high) + ReadOrZero(pre.cpu_ram, P)

\* what cpu.clock() can make of the CPU c
Clocked(c) == { Leave(clock(Enter(c, o))) : o \in StoreOutcomes }

\* C19: counting Bus6502.clock() calls from 0, the PPU is clocked on
\* every call and the CPU exactly on the calls whose count is a multiple
\* of 3: after n calls (n below the 341 dots of a scanline) the PPU has
\* ticked n times, on a call that is a multiple of 3 the CPU is what
\* cpu.clock() makes of it, and on any other call the CPU is untouched.
C19_ClockRatio ==
    call = "bus_clock" =>
        /\ ppu.cycle = ncalls
        /\ IF (ncalls - 1) % 3 = 0
           THEN cpu \in Clocked(pre)
           ELSE cpu = pre

\* C20: the cycle count is never negative.
C20_CyclesNonNegative == cpu.cycle >= 0

\* a clock() call has counted the last cycle of an instruction down to 0
C20_Witness == call = "clock" /\ pre.cycle = 1 /\ cpu.cycle = 0 /\ exc = NoErr

\* the first NOP after the STA of the multiply program has completed
ProgramDone == cpu.pc = CodeBase + 26 /\ cpu.cycle = 0

\* what the multiply program is to leave: 30 at $0002 and in a, y = 0,
\* Z set and N clear
Product ==
    /\ RamAt(cpu.cpu_ram, 2) = 30
    /\ cpu.a = 30
    /\ cpu.y = 0
    /\ cpu.flags.Z = 1
    /\ cpu.flags.N = 0

\* C21: once debug_cpu_program has loaded the multiply program and reset
\* the CPU, the run goes on without an exception, and when the first NOP
\* after the STA has completed RAM[2] = 30, a = 30, y = 0, Z = 1 and N = 0.
C21_Multiply ==
    (start = SY6502 /\ call # "init") => exc = NoErr /\ (ProgramDone => Product)


\* the registers, the flags other than U and the memory are as before the call
SameButPc ==
    /\ cpu.a = pre.a /\ cpu.x = pre.x /\ cpu.y = pre.y
    /\ cpu.stkp = pre.stkp /\ cpu.status = pre.status
    /\ \A f \in {"C", "Z", "I", "D", "B", "V", "N"} : cpu.flags[f] = pre.flags[f]
    /\ cpu.cpu_ram = pre.cpu_ram

\* clock() has just executed an illegal opcode
IllegalExecuted ==
    call = "clock" /\ pre.cycle = 0 /\ OpcodeAt(pre) \in IllegalOpcodes /\ exc = NoErr

\* C22: the table entry of every opcode with the placeholder mnemonic has
\* operate XXX or NOP and mode IMP, and executing such an opcode changes
\* no register other than pc, no flag other than U and no memory byte.
C22_IllegalNoOps ==
    IllegalExecuted =>
        /\ Instruction(OpcodeAt(pre)).opcode \in {"XXX", "NOP"}
        /\ Instruction(OpcodeAt(pre)).addrmode = "IMP"
        /\ SameButPc


\* C23: the dispatch table has exactly 256 entries, so every opcode byte
\* 0x00..0xFF that clock() fetches has an entry, and the base cycle count
\* of every entry is at least 2.
C23_TableComplete ==
    /\ Len(instructions) = 256
    /\ \A opc \in 0..255 : Instruction(opc).cycle >= 2
    /\ (call = "clock" /\ pre.cycle = 0) => OpcodeAt(pre) + 1 \in DOMAIN instructions

\* clock() has fetched an opcode and loaded the cycle count of its entry
C23_Witness ==
    /\ call = "clock" /\ pre.cycle = 0 /\ exc = NoErr
    /\ Instruction(OpcodeAt(pre)).cycle = 2
    /\ cpu.cycle = 1


\* the last two calls of disassemble had the same arguments and nothing was
\* called between them: the second call read the CPU the first call left
SameCallTwice ==
    Len(out) = 2 /\ out[1].args = out[2].args /\ out[1].n = out[2].n + 1

\* C24: disassemble(start, end) leaves every register, flag, latch, the
\* cycle count and the memory as they were, and of two successive calls
\* with the same arguments the second, made on the CPU the first one left,
\* returns the map (or raises the exception) of the first.
C24_DisassemblePure ==
    call = "disassemble" =>
        /\ cpu = pre
        /\ SameCallTwice => out[1].map = out[2].map /\ out[1].err = out[2].err

\* the same window was disassembled twice in succession and holds the line
\* at pc
C24_Witness ==
    /\ call = "disassemble" /\ SameCallTwice /\ exc = NoErr
    /\ \E k \in DOMAIN out[1].map : k >= 0 /\ Head(out[1].map[k]) = "> "


Reads == {"cpu_read", "bus_read"}
Writes == {"cpu_write", "bus_write"}

\* the last call read q right after a write of the byte v to p, with p and
\* q in 0x0000..0x1FFF and equal modulo 0x0800
MirrorReadBack ==
    /\ Len(out) = 2 /\ out[1].op \in Reads /\ out[2].op \in Writes
    /\ Mapped(out[1].addr) /\ Mapped(out[2].addr)
    /\ out[1].addr % 2048 = out[2].addr % 2048
    /\ out[2].data \in 0..255

\* C25: a byte v written to p in 0x0000..0x1FFF is what a read of any q in
\* that range with q mod 0x0800 = p mod 0x0800 returns, and the write
\* changes no RAM cell other than cell p mod 0x0800 (a cell outside both
\* domains holds 0 before and after).
C25_RamMirror ==
    /\ MirrorReadBack => exc = NoErr /\ out[1].val = out[2].data
    /\ (call \in Writes /\ Mapped(out[1].addr)) =>
          \A i \in (DOMAIN cpu.cpu_ram) \cup (DOMAIN pre.cpu_ram) :
              i # out[1].addr % 2048 => RamAt(cpu.cpu_ram, i) = RamAt(pre.cpu_ram, i)

\* 255 was written to $0805 or $1FFF and read back from another address
\* of the same cell, with a nonzero cell elsewhere
C25_Witness ==
    /\ MirrorReadBack /\ out[1].addr # out[2].addr /\ out[2].data = 255
    /\ cpu.cpu_ram # << >> /\ start.cpu_ram # << >>


\* no device answers op at addr: the CPU's own interface maps the RAM
\* only, the bus maps the RAM and the PPU registers
NoDevice(op, addr) ==
    IF op \in {"cpu_read", "cpu_write"} THEN ~Mapped(addr)
    ELSE ~Mapped(addr) /\ ~(8192 <= addr /\ addr <= 16383)

\* the last call was a read or a write of an address no device maps
UnmappedAccess == call \in Reads \cup Writes /\ NoDevice(call, out[1].addr)

\* C26: a read of an address that no device maps raises nothing and
\* returns 0, and a write to such an address raises nothing and leaves all
\* state unchanged.
C26_OpenBus ==
    UnmappedAccess =>
        /\ exc = NoErr
        /\ cpu = pre
        /\ call \in Reads => out[1].val = 0


\* the offset mapper 0 is to give for a CPU address of the cartridge
PrgOffset(addr) == And(addr, IF cart.mapper.prg_banks > 1 THEN 32767 ELSE 16383)

\* C27: with a mapper 0 cartridge, cpu_map_read gives addr AND 0x7FFF (more
\* than one PRG bank) or addr AND 0x3FFF for every address in
\* 0x8000..0xFFFF and reports an address below 0x8000 as not mapped, and
\* Cartridge.cpu_read returns the PRG byte at that offset, offset 0
\* included.
C27_Mapper0 ==
    cart.mapper.kind = "Mapper000" =>
        /\ call = "cpu_map_read" =>
              out[1].val = IF out[1].addr >= 32768 THEN PrgOffset(out[1].addr) ELSE None
        /\ call = "cart_cpu_read" =>
              /\ exc = NoErr
              /\ out[1].val = IF out[1].addr >= 32768
                              THEN RamAt(cart.prg_memory.cells, PrgOffset(out[1].addr))
                              ELSE None


\* C28: every flag field holds 0 or 1.
C28_FlagsAreBits == \A f \in FlagNames : cpu.flags[f] \in {0, 1}


\* the flag condition of the branch at the pc of c, a flag being set when
\* it is not 0
BranchCond(c) ==
    CASE OpcodeAt(c) = 16  -> c.flags.N = 0
      [] OpcodeAt(c) = 48  -> c.flags.N # 0
      [] OpcodeAt(c) = 80  -> c.flags.V = 0
      [] OpcodeAt(c) = 112 -> c.flags.V # 0
      [] OpcodeAt(c) = 144 -> c.flags.C = 0
      [] OpcodeAt(c) = 176 -> c.flags.C # 0
      [] OpcodeAt(c) = 208 -> c.flags.Z = 0
      [] OpcodeAt(c) = 240 -> c.flags.Z # 0
      [] OTHER -> FALSE

\* clock() has just executed the branch at the pc of pre
BranchExecuted ==
    /\ call = "clock" /\ pre.cycle = 0 /\ exc = NoErr
    /\ OpcodeAt(pre) \in {16, 48, 80, 112, 144, 176, 208, 240}

\* C29: a branch is taken exactly when its flag condition holds: pc becomes
\* (pc + addr_rel) mod 0x10000, pc being the address after the operand and
\* addr_rel the signed operand, when the condition holds, and the address
\* after the operand when it does not.
C29_BranchTaken ==
    BranchExecuted =>
        cpu.pc = IF BranchCond(pre)
                 THEN (pre.pc + 2 + Signed(OperandAt(pre))) % 65536
                 ELSE pre.pc + 2


\* clock() has just fetched and executed the instruction at the pc of pre
InstructionExecuted == call = "clock" /\ pre.cycle = 0 /\ exc = NoErr

\* C30: while an instruction executes the opcode latch holds the opcode
\* byte fetched at its start, and an instruction whose addressing mode is
\* IMP leaves fetched equal to the accumulator it started with (fetch()
\* reads no memory for it).
C30_OpcodeLatch ==
    InstructionExecuted =>
        /\ cpu.opcode = OpcodeAt(pre)
        /\ Instruction(OpcodeAt(pre)).addrmode = "IMP" => cpu.fetched = pre.a



\* the result of the shift or rotate named nm on the byte v with carry c,
\* and the bit it shifts out
Shifted(nm, v, c) ==
    CASE nm = "ASL" -> (v * 2) % 256
      [] nm = "LSR" -> v \div 2
      [] nm = "ROL" -> (v * 2 + c) % 256
      [] nm = "ROR" -> (v \div 2) + 128 * c

ShiftedOut(nm, v) == IF nm \in {"ASL", "ROL"} THEN Bit7(v) ELSE v % 2

\* the address in the two operand bytes of the instruction at the pc of c
AbsOperand(c) ==
    RamAt(c.cpu_ram, And(c.pc + 1, RAM_MASK))
    + 256 * RamAt(c.cpu_ram, And(c.pc + 2, RAM_MASK))

\* clock() has just executed the shift or rotate at the pc of pre
ShiftExecuted ==
    /\ InstructionExecuted
    /\ Instruction(OpcodeAt(pre)).name \in {"ASL", "LSR", "ROL", "ROR"}
    /\ Instruction(OpcodeAt(pre)).addrmode \in {"IMP", "ABS"}

\* C31: a shift or rotate in accumulator mode (IMP) takes its operand from
\* a, stores the result in a, sets C to the bit shifted out and leaves
\* every memory byte unchanged; in ABS mode it reads and writes the byte at
\* the operand address, sets C likewise and leaves a unchanged.
C31_AccumulatorShifts ==
    ShiftExecuted =>
        LET nm == Instruction(OpcodeAt(pre)).name
            c == Bool(pre.flags.C # 0)
            addr == And(AbsOperand(pre), RAM_MASK)
        IN  IF Instruction(OpcodeAt(pre)).addrmode = "IMP"
            THEN /\ cpu.a = Shifted(nm, pre.a, c)
                 /\ Bool(cpu.flags.C # 0) = ShiftedOut(nm, pre.a)
                 /\ cpu.cpu_ram = pre.cpu_ram
            ELSE /\ RamAt(cpu.cpu_ram, addr) = Shifted(nm, RamAt(pre.cpu_ram, addr), c)
                 /\ Bool(cpu.flags.C # 0) = ShiftedOut(nm, RamAt(pre.cpu_ram, addr))
                 /\ cpu.a = pre.a



\* the operations of the read, load and compare family
EligibleOps ==
    {"ADC", "SBC", "AND", "ORA", "EOR", "LDA", "LDX", "LDY", "CMP", "CPX", "CPY"}

\* the base address and the index register of the indexed instruction at
\* the pc of c: the operand word and x or y, or the word the zero-page
\* pointer holds and y
IndexBase(c) ==
    IF Instruction(OpcodeAt(c)).addrmode = "IZY"
    THEN RamAt(c.cpu_ram, And(OperandAt(c), 255))
         + 256 * RamAt(c.cpu_ram, And(OperandAt(c) + 1, 255))
    ELSE AbsOperand(c)

IndexReg(c) == IF Instruction(OpcodeAt(c)).addrmode = "ABX" THEN c.x ELSE c.y

\* 1 when the indexed address is on another page than the base address
PageCrossed(c) ==
    Bool((IndexBase(c) + IndexReg(c)) \div 256 # IndexBase(c) \div 256)

\* clock() has just executed an instruction with an indexed or immediate
\* operand
IndexedExecuted ==
    /\ InstructionExecuted
    /\ Instruction(OpcodeAt(pre)).addrmode \in {"ABX", "ABY", "IZY", "IMM"}

\* C32: an operation reports eligibility 1 exactly when it belongs to the
\* read, load and compare family; with ABX, ABY or IZY addressing such an
\* operation takes base_cycles + 1 ticks when the indexed address crosses a
\* page and base_cycles otherwise, and every other operation takes
\* base_cycles.
C32_ExtraCycle ==
    IndexedExecuted =>
        LET e == Instruction(OpcodeAt(pre))
            eligible == Bool(e.opcode \in EligibleOps)
        IN  /\ OperateFlag(pre) = eligible
            /\ e.addrmode # "IMM" =>
                  cpu.cycle = e.cycle + And(PageCrossed(pre), eligible) - 1



\* clock() has just executed the IZY instruction at the pc of pre
IzyExecuted ==
    InstructionExecuted /\ Instruction(OpcodeAt(pre)).addrmode = "IZY"

\* C33: IZY addressing sets addr_abs to the word held by the zero-page
\* pointer (low byte at t AND 0xFF, high byte at (t+1) AND 0xFF) plus y, so
\* that LDA loads from that address and STA stores to it, and reports a
\* page cross exactly when the high byte of the sum differs from the high
\* byte of the pointer.
C33_IndirectIndexed ==
    IzyExecuted =>
        LET addr == IndexBase(pre) + pre.y
            cell == And(addr, RAM_MASK)
        IN  /\ cpu.addr_abs = addr
            /\ ModeFlag(pre) = PageCrossed(pre)
            /\ Instruction(OpcodeAt(pre)).opcode = "LDA"
                  => cpu.a = RamAt(pre.cpu_ram, cell)
            /\ Instruction(OpcodeAt(pre)).opcode = "STA"
                  => RamAt(cpu.cpu_ram, cell) = pre.a



\* clock() has just fetched the ZP0 instruction at the pc of pre
ZeroPageFetched ==
    /\ call = "clock" /\ pre.cycle = 0
    /\ Instruction(OpcodeAt(pre)).addrmode = "ZP0"

\* C34: a ZP0 instruction executes without error for every operand byte:
\* addr_abs is the operand byte, pc is past the operand and, no page cross
\* being reported, the cycle count is base_cycles less the tick taken.
C34_ZeroPage ==
    ZeroPageFetched =>
        /\ exc = NoErr
        /\ cpu.addr_abs = And(OperandAt(pre), 255)
        /\ cpu.pc = pre.pc + 2
        /\ cpu.cycle = Instruction(OpcodeAt(pre)).cycle - 1



\* clock() has just executed the JSR at the pc of pre
JsrExecuted == InstructionExecuted /\ OpcodeAt(pre) = 32

\* clock() has just executed the RTS at the target of the JSR the run
\* started with, the stack being as the JSR left it
RtsAfterJsr ==
    /\ InstructionExecuted /\ OpcodeAt(pre) = 96
    /\ OpcodeAt(start) = 32
    /\ pre.pc = AbsOperand(start)
    /\ pre.stkp = start.stkp - 2

\* the byte k places above the stack pointer of c
StackAbove(c, k) == RamAt(c.cpu_ram, And(STACK_ADDR + c.stkp + k, RAM_MASK))

\* C35: a JSR at address A pushes A+2, high byte first, so that the low
\* byte is on top of the stack, and sets pc to its target; the RTS at the
\* target then sets pc = A+3 and leaves stkp as it was before the JSR.
C35_SubroutineRoundTrip ==
    /\ JsrExecuted =>
          /\ cpu.pc = AbsOperand(pre)
          /\ StackAbove(cpu, 1) = (pre.pc + 2) % 256
          /\ StackAbove(cpu, 2) = ((pre.pc + 2) \div 256) % 256
    /\ RtsAfterJsr =>
          /\ cpu.pc = start.pc + 3
          /\ cpu.stkp = start.stkp

\* the JSR at $04FD pushed $04FF and the RTS has returned to $0500
C35_Witness ==
    RtsAfterJsr /\ start.pc = 1277 /\ cpu.pc = 1280 /\ cpu.stkp = start.stkp



\* clock() has just executed the PHP at the pc of pre
PhpExecuted == InstructionExecuted /\ OpcodeAt(pre) = 8

\* clock() has just executed the PLP of a run that started with PHP
PlpAfterPhp ==
    InstructionExecuted /\ OpcodeAt(pre) = 40 /\ OpcodeAt(start) = 8

\* the flags f and g are set alike in C, Z, I, D, V and N
SameFlags(f, g) ==
    \A k \in {"C", "Z", "I", "D", "V", "N"} : (f[k] # 0) <=> (g[k] # 0)

\* C37: PHP writes at the stack pointer the packed flag byte, with B and U
\* set and C, Z, I, D, V, N as they are; PLP loads the flags from the byte
\* it pops and sets U, so that after PHP, a flag-changing instruction and
\* PLP the flags C, Z, I, D, V, N are as they were at the PHP.
C37_PushPullFlags ==
    /\ PhpExecuted =>
          RamAt(cpu.cpu_ram, And(STACK_ADDR + pre.stkp, RAM_MASK))
              = PackedByte([pre.flags EXCEPT !.B = 1, !.U = 1])
    /\ PlpAfterPhp =>
          /\ SameFlags(cpu.flags, start.flags)
          /\ cpu.flags.U # 0



\* clock() has just fetched the BRK at the pc of pre
BrkFetched == call = "clock" /\ pre.cycle = 0 /\ OpcodeAt(pre) = 0

\* the bytes BRK leaves at the stack positions it pushes to: the first,
\* second and third push counted from the stack pointer of pre
Pushed(k) == RamAt(cpu.cpu_ram, And(STACK_ADDR + pre.stkp - (k - 1), RAM_MASK))

\* C38: BRK sets I, pushes pc (high byte, then low byte; the pc is that
\* of the second or third byte after the BRK opcode), pushes the packed
\* flag byte with B and I set, leaves stkp three lower and B clear, and
\* loads pc from the vector at 0xFFFE/0xFFFF.
C38_Break ==
    BrkFetched =>
        /\ exc = NoErr
        /\ cpu.flags.I = 1
        /\ Pushed(1) * 256 + Pushed(2) \in {pre.pc + 2, pre.pc + 3}
        /\ Or(Pushed(3), 32)
              = PackedByte([pre.flags EXCEPT !.B = 1, !.I = 1, !.U = 1])
        /\ cpu.stkp = pre.stkp - 3
        /\ cpu.flags.B = 0
        /\ cpu.pc = VectorAt(pre.cpu_ram, INTR_ADDR)



\* the vector address and the cycle count of the interrupt named op
IntVector(op) == IF op = "nmi" THEN NMI_ADDR ELSE INTR_ADDR
IntTime(op) == IF op = "nmi" THEN NMI_TIME ELSE INTR_TIME

\* the request r is one the CPU has to take: nmi(), or irq() with I clear,
\* called at an instruction boundary
Taken(r) == r.before.cycle = 0 /\ (r.op = "irq" => r.before.flags.I = 0)

\* the last call was such a request
IntDelivered ==
    /\ call \in {"nmi", "irq"}
    /\ out # NoOut /\ out[1].at = ncalls /\ Taken(out[1])

\* the address of the handler of the request r
Handler(r) == VectorAt(r.before.cpu_ram, IntVector(r.op))

\* clock() has just executed an RTI that is the first instruction of the
\* handler of the last request
RtiAfterInt ==
    /\ InstructionExecuted /\ OpcodeAt(pre) = 64
    /\ out # NoOut /\ Taken(out[1])
    /\ ncalls = out[1].at + IntTime(out[1].op) + 1
    /\ pre.pc = Handler(out[1])

\* clock() has just executed the RTI at the pc of pre
RtiExecuted == InstructionExecuted /\ OpcodeAt(pre) = 64

\* the bit of each flag in the packed flag byte
FlagMask ==
    [C |-> 1, Z |-> 2, I |-> 4, D |-> 8, B |-> 16, U |-> 32, V |-> 64, N |-> 128]

\* C36: an interrupt delivered at an instruction boundary enters its
\* handler, and when the first instruction of the handler is RTI, pc, stkp
\* and the flags C, Z, D, V, N are after the RTI what they were before the
\* interrupt; RTI loads the flags C, Z, I, D, V, N from the byte it pops.
C36_InterruptReturn ==
    /\ IntDelivered => exc = NoErr /\ cpu.pc = Handler(out[1])
    /\ RtiAfterInt =>
          /\ cpu.pc = out[1].before.pc
          /\ cpu.stkp = out[1].before.stkp
          /\ \A k \in {"C", "Z", "D", "V", "N"} :
                (cpu.flags[k] # 0) <=> (out[1].before.flags[k] # 0)
    /\ RtiExecuted =>
          \A k \in {"C", "Z", "I", "D", "V", "N"} :
              (cpu.flags[k] # 0) <=> (And(StackAbove(pre, 1), FlagMask[k]) # 0)



\* the clock() calls made since the last request
TicksSince == ncalls - out[1].at

\* C39: after an interrupt delivered at an instruction boundary no opcode
\* of the interrupted stream is fetched: the k-th clock() call after it,
\* k up to 8 for nmi() and 7 for irq(), leaves cycle = 8 - k or 7 - k with
\* pc at the address loaded from the vector, so that complete() is true
\* again after exactly 8 or 7 calls, and the next clock() call fetches its
\* opcode at that address.
C39_InterruptObserved ==
    (out # NoOut /\ Taken(out[1])) =>
        /\ exc = NoErr
        /\ TicksSince <= IntTime(out[1].op) =>
              /\ cpu.cycle = IntTime(out[1].op) - TicksSince
              /\ cpu.pc = Handler(out[1])
        /\ TicksSince = IntTime(out[1].op) + 1 =>
              pre.cycle = 0 /\ pre.pc = Handler(out[1])



\* the addresses of the lines of the last disassembly that hold a REL
\* instruction
RelLines ==
    { addr \in DOMAIN out[1].map :
        /\ addr >= 0
        /\ Instruction(RamAt(out[1].before.cpu_ram, And(addr, RAM_MASK))).addrmode = "REL" }

\* the offset byte of the branch at addr, and the text between "[$" and
\* "]" of its line
OffsetAt(addr) == RamAt(out[1].before.cpu_ram, And(addr + 1, RAM_MASK))
TargetShown(addr) == SubSeq(out[1].map[addr], 14, Len(out[1].map[addr]) - 2)

\* C40: the target the disassembler shows for a REL instruction is the
\* address after the operand plus the offset byte taken as a signed 8-bit
\* value, reduced to 16 bits.
C40_DisassemblerTarget ==
    (call = "disassemble" /\ exc = NoErr) =>
        \A addr \in RelLines :
            TargetShown(addr) = Hex((addr + 2 + Signed(OffsetAt(addr))) % 65536, 4)

====
